---- MODULE Spec2Model ----
(***************************************************************************)
(* Multi-channel text steganography codec (Stylometrics).                  *)
(*                                                                         *)
(* Strings are sequences of UTF-16 code units (naturals), exactly as the   *)
(* TypeScript source sees them through charCodeAt / fromCharCode.          *)
(* A result that may be a string, null or a thrown error is a record       *)
(* [tag, val] with tag in {"str", "null", "throw"}.                        *)
(***************************************************************************)
EXTENDS Integers, Sequences, FiniteSets, TLC

VARIABLES
    pc,       \* position of the session: which call has been made so far
    text,     \* the host text handed to an encoder (or raw text to a decoder)
    data,     \* the payload string handed to an encoder
    rnd,      \* the values Math.random returns during the encoder call
    opt,      \* the options handed to an encoder
    enc,      \* what the encoder returned
    dec,      \* what the decoder returned
    keyManager, \* the key pairs of the KeyManager, in insertion order
    generated,  \* the number of key pairs generated so far
    signer,   \* the identity the orchestrator is asked to sign with
    given,    \* the content and signature handed to decodeEnhancedContent
    calls,    \* the calls decodeEnhancedContent made, in order
    found     \* the extractionResults decodeEnhancedContent collected

vars == <<pc, text, data, rnd, opt, enc, dec, keyManager, generated, signer, given,
          calls, found>>

\* the inputs of a session: no call changes them
inputs == <<text, data, rnd, opt, keyManager, generated, signer>>

\* what only the orchestrator's decoding touches
orch == <<given, calls, found>>

(***************************************************************************)
(* Results                                                                 *)
(***************************************************************************)
Str(s)   == [tag |-> "str",   val |-> s]
Null     == [tag |-> "null",  val |-> <<>>]
Throw    == [tag |-> "throw", val |-> <<>>]
None     == [tag |-> "none",  val |-> <<>>]   \* not called yet

(***************************************************************************)
(* JavaScript string primitives                                            *)
(***************************************************************************)
Min2(a, b) == IF a < b THEN a ELSE b
Max2(a, b) == IF a > b THEN a ELSE b

\* NaN, as parseInt returns for a string with no leading digit
NaN == 0 - 1

\* s.slice(a, b): negative indices count from the end, NaN counts as 0
Slice(s, a, b) ==
    LET n    == Len(s)
        from == IF a < 0 THEN Max2(n + a, 0) ELSE Min2(a, n)
        to   == IF b < 0 THEN Max2(n + b, 0) ELSE Min2(b, n)
    IN  IF from >= to THEN <<>> ELSE SubSeq(s, from + 1, to)

\* s.slice(a): to the end
SliceFrom(s, a) == Slice(s, a, Len(s))

\* s.substring(a, b): indices clamped to [0, length], swapped when a > b
Substring(s, a, b) ==
    LET n  == Len(s)
        ca == Max2(0, Min2(a, n))
        cb == Max2(0, Min2(b, n))
        lo == Min2(ca, cb)
        hi == Max2(ca, cb)
    IN  IF lo >= hi THEN <<>> ELSE SubSeq(s, lo + 1, hi)

\* s.substr(i, k)
Substr(s, i, k) == Substring(s, i, Min2(i + k, Len(s)))

\* does pat occur in s at 0-based offset i
MatchAt(s, pat, i) ==
    /\ i >= 0
    /\ i + Len(pat) <= Len(s)
    /\ \A k \in 1..Len(pat) : s[i + k] = pat[k]

\* s.indexOf(pat, from): the smallest offset >= from, or -1
IndexOf(s, pat, from) ==
    LET hits == {i \in Max2(from, 0)..(Len(s) - Len(pat)) : MatchAt(s, pat, i)}
    IN  IF hits = {} THEN 0 - 1
        ELSE CHOOSE i \in hits : \A j \in hits : i <= j

Includes(s, pat) == \E i \in 0..(Len(s) - Len(pat)) : MatchAt(s, pat, i)

\* c.repeat(k)
Repeat(c, k) == [i \in 1..k |-> c]

\* s.split(' ').length
SplitSpaceCount(s) == Cardinality({i \in 1..Len(s) : s[i] = 32}) + 1

\* concatenation of the strings ss[lo..hi] (join(''))
RECURSIVE JoinRange(_, _, _)
JoinRange(ss, lo, hi) ==
    IF lo > hi THEN <<>>
    ELSE IF lo = hi THEN ss[lo]
    ELSE LET mid == (lo + hi) \div 2
         IN  JoinRange(ss, lo, mid) \o JoinRange(ss, mid + 1, hi)

Join(ss) == JoinRange(ss, 1, Len(ss))

(***************************************************************************)
(* Bit strings: strings of the characters '0' (48) and '1' (49)            *)
(***************************************************************************)
Pow2(k) == 2 ^ k

\* number of binary digits of n (n.toString(2).length)
RECURSIVE BinaryLen(_)
BinaryLen(n) == IF n < 2 THEN 1 ELSE 1 + BinaryLen(n \div 2)

\* n.toString(2)
ToBinary(n) ==
    LET w == BinaryLen(n)
    IN  [i \in 1..w |-> 48 + ((n \div Pow2(w - i)) % 2)]

\* s.padStart(w, '0')
PadStart(s, w) == IF Len(s) >= w THEN s ELSE Repeat(48, w - Len(s)) \o s

\* parseInt(s, 2) of a string of '0'/'1' characters; NaN for the empty string
RECURSIVE ParseDigits(_, _)
ParseDigits(s, k) ==
    IF k = 0 THEN 0 ELSE 2 * ParseDigits(s, k - 1) + (s[k] - 48)

ParseInt2(s) == IF Len(s) = 0 THEN NaN ELSE ParseDigits(s, Len(s))

\* Array.from(d).map(c => c.charCodeAt(0).toString(2).padStart(8,'0')).join('')
binaryData(d) == Join([i \in 1..Len(d) |-> PadStart(ToBinary(d[i]), 8)])

\* binaryData.length.toString(2).padStart(16, '0')
BadLengthBinary(b) == PadStart(ToBinary(Len(b) % Pow2(8)), 16)
lengthBinary(b) == PadStart(ToBinary(Len(b)), 16)

(***************************************************************************)
(* Zero-width channel                                                      *)
(***************************************************************************)
ZWSP == 8203
ZWNJ == 8204
ZWJ  == 8205

\* bits.split('').map(bit => bit === '0' ? ZWSP : ZWNJ).join('')
BadEncodeSymbols(bits) == [i \in 1..Len(bits) |-> IF bits[i] = 48 THEN ZWNJ ELSE ZWSP]
EncodeSymbols(bits) == [i \in 1..Len(bits) |-> IF bits[i] = 48 THEN ZWSP ELSE ZWNJ]

\* chars.split('').map(char => char === ZWSP ? '0' : '1').join('')
DecodeSymbols(chars) == [i \in 1..Len(chars) |-> IF chars[i] = ZWSP THEN 48 ELSE 49]

\* Math.min(text.length - 1, Math.max(0, text.split(' ').length % 10 + 10))
position(t) == Min2(Len(t) - 1, Max2(0, (SplitSpaceCount(t) % 10) + 10))

hideDataInText(t, d) ==
    LET bin      == binaryData(d)
        preamble == Repeat(ZWJ, 3)
        epilogue == Repeat(ZWJ, 3)
        pos      == position(t)
    IN  Slice(t, 0, pos)
          \o preamble \o EncodeSymbols(lengthBinary(bin)) \o EncodeSymbols(bin) \o epilogue
          \o SliceFrom(t, pos)

\* the string built from dataBits eight characters at a time
\* (no check that the last group holds eight bits)
BytesOfBits(dataBits) ==
    [k \in 1..((Len(dataBits) + 7) \div 8) |->
        ParseInt2(Substr(dataBits, 8 * (k - 1), 8))]

extractHiddenData(t) ==
    LET preamble      == Repeat(ZWJ, 3)
        epilogue      == Repeat(ZWJ, 3)
        preambleIndex == IndexOf(t, preamble, 0)
        epilogueIndex == IndexOf(t, epilogue, preambleIndex + Len(preamble))
        encodedContent == Substring(t, preambleIndex + Len(preamble), epilogueIndex)
        lengthBits    == DecodeSymbols(Slice(encodedContent, 0, 16))
        dataLength    == ParseInt2(lengthBits)
        \* 16 + NaN is NaN, which slice reads as 0
        sliceEnd      == IF dataLength = NaN THEN 0 ELSE 16 + dataLength
        dataBits      == DecodeSymbols(Slice(encodedContent, 16, sliceEnd))
    IN  IF preambleIndex = 0 - 1 THEN Null
        ELSE IF epilogueIndex = 0 - 1 THEN Null
        ELSE Str(BytesOfBits(dataBits))

(***************************************************************************)
(* More string primitives: whitespace, sentences, paragraphs               *)
(***************************************************************************)
\* the characters String.prototype.trim and \s treat as white space
IsSpace(c) == c \in {9, 10, 11, 12, 13, 32, 160, 5760, 8232, 8233, 8239, 8287, 12288, 65279}
                 \/ (c >= 8192 /\ c <= 8202)

\* the indices lo..hi at which mask is TRUE, in increasing order
RECURSIVE SelectRange(_, _, _)
SelectRange(mask, lo, hi) ==
    IF lo > hi THEN <<>>
    ELSE IF lo = hi THEN (IF mask[lo] THEN <<lo>> ELSE <<>>)
    ELSE LET mid == (lo + hi) \div 2
         IN  SelectRange(mask, lo, mid) \o SelectRange(mask, mid + 1, hi)

SelectIdx(mask) == SelectRange(mask, 1, Len(mask))

\* number of leading / trailing white-space characters
LeadSpace(s)  == Cardinality({i \in 1..Len(s) : \A j \in 1..i : IsSpace(s[j])})
TrailSpace(s) == Cardinality({i \in 1..Len(s) : \A j \in 0..(Len(s) - i) : IsSpace(s[Len(s) - j])})

\* s.trim()
Trim(s) ==
    LET a == LeadSpace(s)
    IN  IF a = Len(s) THEN <<>> ELSE SubSeq(s, a + 1, Len(s) - TrailSpace(s))

\* s.endsWith(c) for a single character c
EndsWith(s, c) == Len(s) > 0 /\ s[Len(s)] = c

\* s.replace(pat, rep) for a string pattern: the first occurrence only
ReplaceFirst(s, pat, rep) ==
    LET i == IndexOf(s, pat, 0)
    IN  IF i = 0 - 1 THEN s
        ELSE SubSeq(s, 1, i) \o rep \o SubSeq(s, i + Len(pat) + 1, Len(s))

\* '.', '!', '?'
IsTerminator(c) == c \in {46, 33, 63}

\* text.match(/[^.!?]+[.!?]+/g) || []: each match is a maximal run of
\* non-terminators followed by a maximal run of terminators; terminators that
\* open the text and the unterminated tail belong to no match
Sentences(t) ==
    LET n     == Len(t)
        lead  == Cardinality({i \in 1..n : \A j \in 1..i : IsTerminator(t[j])})
        ends  == SelectIdx([i \in 1..n |->
                     /\ IsTerminator(t[i])
                     /\ (i = n \/ ~IsTerminator(t[i + 1]))
                     /\ i > lead])
    IN  [k \in 1..Len(ends) |->
            SubSeq(t, IF k = 1 THEN lead + 1 ELSE ends[k - 1] + 1, ends[k])]

\* how many newlines end at index i, counting back from i
NewlineRun(t, i) ==
    CHOOSE m \in 0..i :
        /\ m = i \/ t[i - m] # 10
        /\ \A k \in 0..(m - 1) : t[i - k] = 10

\* text.split('\n\n'): separators are taken left to right without overlap
SplitParagraphs(t) ==
    LET n    == Len(t)
        seps == SelectIdx([i \in 1..n |->
                    /\ t[i] = 10
                    /\ i < n
                    /\ t[i + 1] = 10
                    /\ NewlineRun(t, i) % 2 = 1])
    IN  [k \in 1..(Len(seps) + 1) |->
            LET from == IF k = 1 THEN 1 ELSE seps[k - 1] + 2
                to   == IF k = Len(seps) + 1 THEN n ELSE seps[k] - 1
            IN  IF from > to THEN <<>> ELSE SubSeq(t, from, to)]

(***************************************************************************)
(* Math.random: a call returns one of RandomValues tenths; the tape of a   *)
(* call to an encoder has period RandomPeriod                              *)
(***************************************************************************)
RandomPeriod == 2
RandomValues == {2, 8}       \* 0.2 and 0.8
RandomTapes  == [0..(RandomPeriod - 1) -> RandomValues]
NoRandom     == [i \in 0..(RandomPeriod - 1) |-> 2]   \* for calls that draw nothing

\* sessions of one channel: no key manager, nothing handed to the orchestrator
NoOrchestrator ==
    /\ keyManager = <<>>
    /\ generated = 0
    /\ signer = "null"
    /\ given = [content |-> <<>>, signature |-> [key |-> 0, content |-> <<>>]]
    /\ calls = <<>>
    /\ found = <<>>

\* for calls that take no options
NoOptions == [minContentLength |-> 0, maxEncodableBits |-> 0, encodingStrength |-> "none"]

\* the value drawn at call site `site` while unit `i` is being processed
Random(tape, i, site) == tape[(i + site) % RandomPeriod]

(***************************************************************************)
(* Stylometric channel                                                     *)
(***************************************************************************)
\* COMMON_WORDS.adverbs
adverbs ==
    << <<118, 101, 114, 121>>,                           \* very
       <<113, 117, 105, 116, 101>>,                      \* quite
       <<114, 97, 116, 104, 101, 114>>,                  \* rather
       <<115, 111, 109, 101, 119, 104, 97, 116>>,        \* somewhat
       <<101, 120, 116, 114, 101, 109, 101, 108, 121>>,  \* extremely
       <<102, 97, 105, 114, 108, 121>>,                  \* fairly
       <<112, 114, 101, 116, 116, 121>>,                 \* pretty
       <<114, 101, 97, 108, 108, 121>> >>                \* really

\* "Please note the following information carefully. "
markerText ==
    <<80, 108, 101, 97, 115, 101, 32, 110, 111, 116, 101, 32, 116, 104, 101, 32,
      102, 111, 108, 108, 111, 119, 105, 110, 103, 32, 105, 110, 102, 111, 114,
      109, 97, 116, 105, 111, 110, 32, 99, 97, 114, 101, 102, 117, 108, 108, 121,
      46, 32>>

\* ' ' + adverb + ' '
Spaced(w) == <<32>> \o w \o <<32>>

\* COMMON_WORDS.adverbs.forEach(adverb => { if (Math.random() > 0.7 &&
\*   modified.includes(' ' + adverb + ' ')) modified = modified.replace(..., ' ') })
RECURSIVE RemoveAdverbs(_, _, _, _)
RemoveAdverbs(s, tape, i, k) ==
    IF k > Len(adverbs) THEN s
    ELSE RemoveAdverbs(
            IF Random(tape, i, k - 1) > 7 /\ Includes(s, Spaced(adverbs[k]))
              THEN ReplaceFirst(s, Spaced(adverbs[k]), <<32>>) ELSE s,
            tape, i, k + 1)

\* words.splice(p, 0, adverb) on words = s.split(' '), joined by ' ' again:
\* the adverb goes right after the p-th space
InsertWord(s, p, w) ==
    LET spaces == SelectIdx([j \in 1..Len(s) |-> s[j] = 32])
        at     == spaces[p]
    IN  SubSeq(s, 1, at) \o w \o <<32>> \o SubSeq(s, at + 1, Len(s))

\* the sentence carrying bit '0'
EncodeZero(sentence, tape, i) ==
    LET modified == RemoveAdverbs(sentence, tape, i, 1)
    IN  IF EndsWith(modified, 33) \/ EndsWith(modified, 63)
          THEN Slice(modified, 0, 0 - 1) \o <<46>>
          ELSE modified

\* the sentence carrying bit '1'
EncodeOne(sentence, tape, i) ==
    LET nwords   == SplitSpaceCount(sentence)
        modified ==
            IF Random(tape, i, 0) > 7
              THEN InsertWord(sentence,
                              ((Random(tape, i, 1) * (nwords - 1)) \div 10) + 1,
                              adverbs[((Random(tape, i, 2) * Len(adverbs)) \div 10) + 1])
              ELSE sentence
    IN  IF EndsWith(modified, 46)
          THEN Slice(modified, 0, 0 - 1) \o (IF Random(tape, i, 3) > 5 THEN <<33>> ELSE <<63>>)
          ELSE modified

\* sentence.split(' ').length < 3
TooShort(sentence) == SplitSpaceCount(sentence) < 3

\* encodeStylometricBits: sentence i (from 1) is visited while bitIndex, the
\* number of sentences of 3 or more words before it, is below the bit count;
\* the tail loop then restarts at index bitIndex, not at the first unvisited
\* sentence
encodeStylometricBits(t, bitsToEncode, tape) ==
    LET sentences == Sentences(t)
        n         == Len(sentences)
        trimmed   == [i \in 1..n |-> Trim(sentences[i])]
        eligible  == SelectIdx([i \in 1..n |-> ~TooShort(trimmed[i])])
        \* bitIndex when the loop reaches sentence i
        rank      == [i \in 1..n |-> Cardinality({k \in 1..Len(eligible) : eligible[k] < i})]
        visited   == [i \in 1..n |-> rank[i] < Len(bitsToEncode)]
        bitIndex  == Min2(Len(eligible), Len(bitsToEncode))
        piece     == [i \in 1..n |->
                        IF ~visited[i] THEN <<>>
                        ELSE IF TooShort(trimmed[i]) THEN trimmed[i] \o <<32>>
                        ELSE IF bitsToEncode[rank[i] + 1] = 48
                          THEN EncodeZero(trimmed[i], tape, i) \o <<32>>
                          ELSE EncodeOne(trimmed[i], tape, i) \o <<32>>]
        rest      == [i \in 1..n |-> IF i > bitIndex THEN sentences[i] \o <<32>> ELSE <<>>]
    IN  IF n < Len(bitsToEncode) THEN Throw
        ELSE Str(Trim(Join(piece) \o Join(rest)))

\* index (from 1) of the paragraph the loop "for i = 1; i < length - 1" encodes
\* into: the first middle paragraph that is not blank; 0 when there is none
EncodedParagraph(paragraphs) ==
    LET mid == {i \in 2..(Len(paragraphs) - 1) : Len(Trim(paragraphs[i])) > 0}
    IN  IF mid = {} THEN 0 ELSE CHOOSE i \in mid : \A j \in mid : i <= j

hideDataStylometrically(t, d, tape) ==
    LET bin          == binaryData(d)
        bitsToEncode == lengthBinary(bin) \o bin
        paragraphs   == SplitParagraphs(t)
        n            == Len(paragraphs)
        head         == IF Len(Trim(paragraphs[1])) > 0
                          THEN markerText \o paragraphs[1] \o <<10, 10>>
                          ELSE markerText \o <<10, 10>>
        e            == EncodedParagraph(paragraphs)
        body         == IF e = 0 THEN Str(<<>>)
                        ELSE encodeStylometricBits(paragraphs[e], bitsToEncode, tape)
        \* "Add remaining paragraphs": from the third paragraph on
        tail         == Join([i \in 1..n |->
                            IF i < 3 THEN <<>>
                            ELSE IF i < n THEN paragraphs[i] \o <<10, 10>>
                            ELSE paragraphs[i]])
    IN  IF n < 2 THEN Throw
        ELSE IF body.tag = "throw" THEN Throw
        ELSE Str(head \o (IF e = 0 THEN <<>> ELSE body.val \o <<10, 10>>) \o tail)

\* the bit a sentence of 3 or more words reads as
SentenceBit(sentence) ==
    IF \/ EndsWith(sentence, 33)
       \/ EndsWith(sentence, 63)
       \/ \E k \in 1..Len(adverbs) : Includes(sentence, Spaced(adverbs[k]))
      THEN 49 ELSE 48

\* extractStylometricBits: the sentences from the third on, short ones
\* skipped, read until 16 + dataLength bits are held
BadExtractStylometricBits(t) ==
    LET sentences == Sentences(t)
        n         == Len(sentences)
        trimmed   == [i \in 1..n |-> Trim(sentences[i])]
        read      == SelectIdx([i \in 1..n |-> i > 2 /\ ~TooShort(trimmed[i])])
        all       == [k \in 1..Len(read) |-> SentenceBit(trimmed[read[k]])]
    IN  IF ~Includes(t, Slice(markerText, 0, 0 - 1)) THEN Null
        ELSE IF Len(all) < 16 THEN Null
        ELSE Str(all)
extractStylometricBits(t) ==
    LET sentences == Sentences(t)
        n         == Len(sentences)
        trimmed   == [i \in 1..n |-> Trim(sentences[i])]
        startIndex == 2
        read      == SelectIdx([i \in 1..n |-> i > startIndex /\ ~TooShort(trimmed[i])])
        all       == [k \in 1..Len(read) |-> SentenceBit(trimmed[read[k]])]
        stopAt    == IF Len(all) < 16 THEN Len(all)
                     ELSE Min2(Len(all), 16 + ParseInt2(SubSeq(all, 1, 16)))
    IN  IF ~Includes(t, Slice(markerText, 0, 0 - 1)) THEN Null
        ELSE IF Len(all) < 16 THEN Null
        ELSE Str(SubSeq(all, 1, stopAt))

\* the string built from whole groups of eight bits only
WholeBytesOfBits(dataBits) ==
    [k \in 1..(Len(dataBits) \div 8) |-> ParseInt2(Substr(dataBits, 8 * (k - 1), 8))]

extractHiddenStylometricData(t) ==
    LET extractedBits == extractStylometricBits(t)
        bits          == extractedBits.val
        dataLength    == ParseInt2(Substring(bits, 0, 16))
    IN  IF extractedBits.tag = "null" \/ Len(bits) < 16 THEN Null
        ELSE IF Len(bits) < 16 + dataLength THEN Null
        ELSE Str(WholeBytesOfBits(Substring(bits, 16, 16 + dataLength)))

(***************************************************************************)
(* Structural channel: word matching                                       *)
(***************************************************************************)
\* \w: [A-Za-z0-9_]
IsWordChar(c) ==
    \/ (c >= 48 /\ c <= 57)
    \/ (c >= 65 /\ c <= 90)
    \/ c = 95
    \/ (c >= 97 /\ c <= 122)

\* the i flag of the patterns, and toLowerCase, on ASCII letters
Lower(c) == IF c >= 65 /\ c <= 90 THEN c + 32 ELSE c
LowerStr(s) == [i \in 1..Len(s) |-> Lower(s[i])]

\* the maximal runs of word characters of t: where each starts and ends, and
\* its lower-case spelling. A pattern \b(w1|w2|...)\b of plain words matches
\* exactly the runs spelled like one of the words.
Tokens(t) ==
    LET n      == Len(t)
        starts == SelectIdx([i \in 1..n |-> IsWordChar(t[i]) /\ (i = 1 \/ ~IsWordChar(t[i - 1]))])
        ends   == SelectIdx([i \in 1..n |-> IsWordChar(t[i]) /\ (i = n \/ ~IsWordChar(t[i + 1]))])
    IN  [start |-> starts,
         end   |-> ends,
         word  |-> [k \in 1..Len(starts) |-> LowerStr(SubSeq(t, starts[k], ends[k]))]]

\* number of matches of \b(w1|w2|...)\b
CountWords(tok, W) == Cardinality({k \in 1..Len(tok.word) : tok.word[k] \in W})

\* number of matches of \b(w1 w2)\b: two runs with one space between them
CountPairs(t, tok, w1, w2) ==
    Cardinality({k \in 1..(Len(tok.word) - 1) :
        /\ tok.word[k] = w1
        /\ tok.word[k + 1] = w2
        /\ tok.start[k + 1] = tok.end[k] + 2
        /\ t[tok.end[k] + 1] = 32})

\* /\b(I|me|my|mine|myself)\b/gi, lower case
firstPersonWords ==
    {
      <<105>>,                                                    \* i
      <<109, 101>>,                                               \* me
      <<109, 121>>,                                               \* my
      <<109, 105, 110, 101>>,                                     \* mine
      <<109, 121, 115, 101, 108, 102>> }                          \* myself

\* /\b(you|your|yours|yourself)\b/gi
secondPersonWords ==
    {
      <<121, 111, 117>>,                                          \* you
      <<121, 111, 117, 114>>,                                     \* your
      <<121, 111, 117, 114, 115>>,                                \* yours
      <<121, 111, 117, 114, 115, 101, 108, 102>> }                \* yourself

\* /\b(he|she|it|they|him|her|them|his|hers|their|theirs)\b/gi
thirdPersonWords ==
    {
      <<104, 101>>,                                               \* he
      <<115, 104, 101>>,                                          \* she
      <<105, 116>>,                                               \* it
      <<116, 104, 101, 121>>,                                     \* they
      <<104, 105, 109>>,                                          \* him
      <<104, 101, 114>>,                                          \* her
      <<116, 104, 101, 109>>,                                     \* them
      <<104, 105, 115>>,                                          \* his
      <<104, 101, 114, 115>>,                                     \* hers
      <<116, 104, 101, 105, 114>>,                                \* their
      <<116, 104, 101, 105, 114, 115>> }                          \* theirs

\* /\b(\w+ed|was|were|had)\b/gi, the fixed words
pastWords ==
    {
      <<119, 97, 115>>,                                           \* was
      <<119, 101, 114, 101>>,                                     \* were
      <<104, 97, 100>> }                                          \* had

\* /\b(is|are|am|being)\b/gi
presentWords ==
    {
      <<105, 115>>,                                               \* is
      <<97, 114, 101>>,                                           \* are
      <<97, 109>>,                                                \* am
      <<98, 101, 105, 110, 103>> }                                \* being

\* /\b(will|shall|going to)\b/gi, the single words
futureWords ==
    {
      <<119, 105, 108, 108>>,                                     \* will
      <<115, 104, 97, 108, 108>> }                                \* shall

\* /\b(certainly|definitely|absolutely|crucial|essential|critical)\b/i
emphasisWords ==
    {
      <<99, 101, 114, 116, 97, 105, 110, 108, 121>>,              \* certainly
      <<100, 101, 102, 105, 110, 105, 116, 101, 108, 121>>,       \* definitely
      <<97, 98, 115, 111, 108, 117, 116, 101, 108, 121>>,         \* absolutely
      <<99, 114, 117, 99, 105, 97, 108>>,                         \* crucial
      <<101, 115, 115, 101, 110, 116, 105, 97, 108>>,             \* essential
      <<99, 114, 105, 116, 105, 99, 97, 108>> }                   \* critical

\* /\b(like|as if|as though|resembles|similar to)\b/gi, the single words
metaphorWords ==
    {
      <<108, 105, 107, 101>>,                                     \* like
      <<114, 101, 115, 101, 109, 98, 108, 101, 115>> }            \* resembles

\* /\b(because|therefore|thus|hence|so|consequently)\b/gi
argumentativeWords ==
    {
      <<98, 101, 99, 97, 117, 115, 101>>,                         \* because
      <<116, 104, 101, 114, 101, 102, 111, 114, 101>>,            \* therefore
      <<116, 104, 117, 115>>,                                     \* thus
      <<104, 101, 110, 99, 101>>,                                 \* hence
      <<115, 111>>,                                               \* so
      <<99, 111, 110, 115, 101, 113, 117, 101, 110, 116, 108, 121>> } \* consequently

\* /\b(appears|looks|seems|features|contains|consists)\b/gi
descriptiveWords ==
    {
      <<97, 112, 112, 101, 97, 114, 115>>,                        \* appears
      <<108, 111, 111, 107, 115>>,                                \* looks
      <<115, 101, 101, 109, 115>>,                                \* seems
      <<102, 101, 97, 116, 117, 114, 101, 115>>,                  \* features
      <<99, 111, 110, 116, 97, 105, 110, 115>>,                   \* contains
      <<99, 111, 110, 115, 105, 115, 116, 115>> }                 \* consists

\* /\b(then|next|after|before|finally|eventually)\b/gi
narrativeWords ==
    {
      <<116, 104, 101, 110>>,                                     \* then
      <<110, 101, 120, 116>>,                                     \* next
      <<97, 102, 116, 101, 114>>,                                 \* after
      <<98, 101, 102, 111, 114, 101>>,                            \* before
      <<102, 105, 110, 97, 108, 108, 121>>,                       \* finally
      <<101, 118, 101, 110, 116, 117, 97, 108, 108, 121>> }       \* eventually

\* /\b(is|are|was|were|will|should|could|would|can)\b/i
questionVerbs ==
    {
      <<105, 115>>,                                               \* is
      <<97, 114, 101>>,                                           \* are
      <<119, 97, 115>>,                                           \* was
      <<119, 101, 114, 101>>,                                     \* were
      <<119, 105, 108, 108>>,                                     \* will
      <<115, 104, 111, 117, 108, 100>>,                           \* should
      <<99, 111, 117, 108, 100>>,                                 \* could
      <<119, 111, 117, 108, 100>>,                                \* would
      <<99, 97, 110>> }                                           \* can

\* /\b(had|was|were|previously|earlier|before|yesterday)\b/i
pastMarkers ==
    {
      <<104, 97, 100>>,                                           \* had
      <<119, 97, 115>>,                                           \* was
      <<119, 101, 114, 101>>,                                     \* were
      <<112, 114, 101, 118, 105, 111, 117, 115, 108, 121>>,       \* previously
      <<101, 97, 114, 108, 105, 101, 114>>,                       \* earlier
      <<98, 101, 102, 111, 114, 101>>,                            \* before
      <<121, 101, 115, 116, 101, 114, 100, 97, 121>> }            \* yesterday

\* /\b(will|shall|going to|soon|eventually|tomorrow)\b/i, the single words
futureMarkers ==
    {
      <<119, 105, 108, 108>>,                                     \* will
      <<115, 104, 97, 108, 108>>,                                 \* shall
      <<115, 111, 111, 110>>,                                     \* soon
      <<101, 118, 101, 110, 116, 117, 97, 108, 108, 121>>,        \* eventually
      <<116, 111, 109, 111, 114, 114, 111, 119>> }                \* tomorrow

W_going == <<103, 111, 105, 110, 103>>    \* going
W_to == <<116, 111>>    \* to
W_as == <<97, 115>>    \* as
W_if == <<105, 102>>    \* if
W_though == <<116, 104, 111, 117, 103, 104>>    \* though
W_similar == <<115, 105, 109, 105, 108, 97, 114>>    \* similar
W_ed == <<101, 100>>    \* ed

\* \w+ed: a run of three or more word characters ending in "ed"
EndsInEd(w) == Len(w) >= 3 /\ SubSeq(w, Len(w) - 1, Len(w)) = W_ed

CountPast(tok) ==
    Cardinality({k \in 1..Len(tok.word) : tok.word[k] \in pastWords \/ EndsInEd(tok.word[k])})

(***************************************************************************)
(* Structural channel: analyzeContentUnit                                  *)
(***************************************************************************)
\* enum RhetoricalPattern: the six names share the two values 0 and 1
EndingQuestion == 0
EndingEmphasis == 1
Metaphorical   == 0
Direct         == 1

Max3(c) == Max2(c[1], Max2(c[2], c[3]))
Sum3(c) == c[1] + c[2] + c[3]

\* maxCount > 0 && maxCount >= 2 * (sum - maxCount): the first category
\* holding the maximum, else 'mixed'
DominantOfDouble(c, names) ==
    IF Max3(c) > 0 /\ Max3(c) >= 2 * (Sum3(c) - Max3(c))
      THEN (IF c[1] = Max3(c) THEN names[1] ELSE IF c[2] = Max3(c) THEN names[2] ELSE names[3])
      ELSE "mixed"

\* maxCount > 0 && maxCount > sum / 2
DominantOfHalf(c, names) ==
    IF Max3(c) > 0 /\ 2 * Max3(c) > Sum3(c)
      THEN (IF c[1] = Max3(c) THEN names[1] ELSE IF c[2] = Max3(c) THEN names[2] ELSE names[3])
      ELSE "mixed"

\* text.split(/\s+/).filter(w => w.length > 0), lower-cased, as a set
UniqueWords(t) ==
    LET n      == Len(t)
        starts == SelectIdx([i \in 1..n |-> ~IsSpace(t[i]) /\ (i = 1 \/ IsSpace(t[i - 1]))])
        ends   == SelectIdx([i \in 1..n |-> ~IsSpace(t[i]) /\ (i = n \/ IsSpace(t[i + 1]))])
    IN  {LowerStr(SubSeq(t, starts[k], ends[k])) : k \in 1..Len(starts)}

WordCount(t) ==
    Cardinality({i \in 1..Len(t) : ~IsSpace(t[i]) /\ (i = 1 \/ IsSpace(t[i - 1]))})

\* the pattern of the last sentence: a closing question, else an emphasis
ClosingPattern(sentences) ==
    LET last == sentences[Len(sentences)]
    IN  IF Len(sentences) > 0 /\ EndsWith(Trim(last), 63) THEN <<EndingQuestion>>
        ELSE IF /\ Len(sentences) > 0
                /\ \/ EndsWith(Trim(last), 33)
                   \/ CountWords(Tokens(last), emphasisWords) > 0
          THEN <<EndingEmphasis>>
        ELSE <<>>

\* complexity = (words / sentences, or 0 without sentences) * (unique / words) * 10,
\* kept as the fraction num / den; with no word at all it is NaN
Complexity(nwords, nunique, nsentences) ==
    IF nwords = 0 THEN [nan |-> TRUE, num |-> 0, den |-> 1]
    ELSE IF nsentences = 0 THEN [nan |-> FALSE, num |-> 0, den |-> 1]
    ELSE [nan |-> FALSE, num |-> 10 * nunique, den |-> nsentences]

analyzeContentUnit(t) ==
    LET sentences == Sentences(t)
        tok       == Tokens(t)
        povCounts == << CountWords(tok, firstPersonWords),
                        CountWords(tok, secondPersonWords),
                        CountWords(tok, thirdPersonWords) >>
        tenseCounts == << CountPast(tok),
                          CountWords(tok, presentWords),
                          CountWords(tok, futureWords) + CountPairs(t, tok, W_going, W_to) >>
        metaphorIndicators ==
            CountWords(tok, metaphorWords) + CountPairs(t, tok, W_as, W_if)
              + CountPairs(t, tok, W_as, W_though) + CountPairs(t, tok, W_similar, W_to)
        dialecticCounts == << CountWords(tok, argumentativeWords),
                              CountWords(tok, descriptiveWords),
                              CountWords(tok, narrativeWords) >>
    IN  [ wordCount     |-> WordCount(t),
          sentenceCount |-> Len(sentences),
          complexity    |-> Complexity(WordCount(t), Cardinality(UniqueWords(t)), Len(sentences)),
          pov           |-> DominantOfDouble(povCounts, <<"first", "second", "third">>),
          tense         |-> DominantOfDouble(tenseCounts, <<"past", "present", "future">>),
          rhetorical    |-> ClosingPattern(sentences)
                              \o (IF metaphorIndicators > 0 THEN <<Metaphorical>> ELSE <<Direct>>),
          dialectic     |-> DominantOfHalf(dialecticCounts,
                                           <<"argumentative", "descriptive", "narrative">>) ]

(***************************************************************************)
(* Structural channel: splitContentIntoUnits                               *)
(***************************************************************************)
\* a newline with no newline before it in the white space that precedes it
FirstNewline(t, i) ==
    /\ t[i] = 10
    /\ ~\E j \in 1..(i - 1) : t[j] = 10 /\ \A k \in j..(i - 1) : IsSpace(t[k])

\* a newline with no newline after it in the white space that follows it
LastNewline(t, i) ==
    /\ t[i] = 10
    /\ ~\E j \in (i + 1)..Len(t) : t[j] = 10 /\ \A k \in (i + 1)..j : IsSpace(t[k])

\* content.split(/\n\s*\n/): a separator runs from the first to the last
\* newline of a stretch of white space that holds two or more newlines
SplitBlankLines(t) ==
    LET n      == Len(t)
        from   == SelectIdx([i \in 1..n |-> FirstNewline(t, i) /\ ~LastNewline(t, i)])
        to     == SelectIdx([i \in 1..n |-> LastNewline(t, i) /\ ~FirstNewline(t, i)])
    IN  [k \in 1..(Len(from) + 1) |->
            LET a == IF k = 1 THEN 1 ELSE to[k - 1] + 1
                b == IF k = Len(from) + 1 THEN n ELSE from[k] - 1
            IN  IF a > b THEN <<>> ELSE SubSeq(t, a, b)]

NotBlank(p) == Len(Trim(p)) > 0

\* the sentence that closes the unit opened by sentence a: the first at which
\* three sentences are held or the unit is longer than 200 characters
UnitEnd(sentences, a) ==
    LET n == Len(sentences)
    IN  IF Len(sentences[a]) > 200 \/ a = n THEN a
        ELSE IF Len(sentences[a]) + Len(sentences[a + 1]) > 200 \/ a + 1 = n THEN a + 1
        ELSE a + 2

RECURSIVE GroupSentences(_, _)
GroupSentences(sentences, a) ==
    IF a > Len(sentences) THEN <<>>
    ELSE LET b == UnitEnd(sentences, a)
         IN  <<JoinRange(sentences, a, b)>> \o GroupSentences(sentences, b + 1)

splitContentIntoUnits(content) ==
    LET paragraphs == SelectSeq(SplitBlankLines(content), NotBlank)
    IN  IF Len(paragraphs) < 5
          THEN GroupSentences(Sentences(content), 1)
          ELSE paragraphs

(***************************************************************************)
(* Structural channel: transformations of one unit                         *)
(***************************************************************************)
\* NARRATIVE_PATTERNS.firstPerson
\*   "I remember when"
\*   "As I considered"
\*   "In my experience"
\*   "Looking back, I realized"
\*   "From my perspective"
firstPerson ==
    <<
       <<73, 32, 114, 101, 109, 101, 109, 98, 101, 114, 32, 119, 104, 101, 110>>,
       <<65, 115, 32, 73, 32, 99, 111, 110, 115, 105, 100, 101, 114, 101, 100>>,
       <<73, 110, 32, 109, 121, 32, 101, 120, 112, 101, 114, 105, 101, 110, 99, 101>>,
       <<76, 111, 111, 107, 105, 110, 103, 32, 98, 97, 99, 107, 44, 32, 73, 32, 114, 101, 97, 108, 105, 122, 101, 100>>,
       <<70, 114, 111, 109, 32, 109, 121, 32, 112, 101, 114, 115, 112, 101, 99, 116, 105, 118, 101>> >>

\* NARRATIVE_PATTERNS.thirdPerson
\*   "They observed that"
\*   "From their viewpoint"
\*   "It became clear to them"
\*   "After consideration, she decided"
\*   "He recognized the pattern"
thirdPerson ==
    <<
       <<84, 104, 101, 121, 32, 111, 98, 115, 101, 114, 118, 101, 100, 32, 116, 104, 97, 116>>,
       <<70, 114, 111, 109, 32, 116, 104, 101, 105, 114, 32, 118, 105, 101, 119, 112, 111, 105, 110, 116>>,
       <<73, 116, 32, 98, 101, 99, 97, 109, 101, 32, 99, 108, 101, 97, 114, 32, 116, 111, 32, 116, 104, 101, 109>>,
       <<65, 102, 116, 101, 114, 32, 99, 111, 110, 115, 105, 100, 101, 114, 97, 116, 105, 111, 110, 44, 32, 115, 104, 101, 32, 100, 101, 99, 105, 100, 101, 100>>,
       <<72, 101, 32, 114, 101, 99, 111, 103, 110, 105, 122, 101, 100, 32, 116, 104, 101, 32, 112, 97, 116, 116, 101, 114, 110>> >>

\* makeParagraphLonger.elaborations
\*   "This illustrates the key principle at work. "
\*   "The implications of this are significant. "
\*   "Several factors contribute to this outcome. "
\*   "This represents an important development. "
\*   "Multiple perspectives can be applied to this situation. "
longerElaborations ==
    <<
       <<84, 104, 105, 115, 32, 105, 108, 108, 117, 115, 116, 114, 97, 116, 101, 115, 32, 116, 104, 101, 32, 107, 101, 121, 32, 112, 114, 105, 110, 99, 105, 112, 108, 101, 32, 97, 116, 32, 119, 111, 114, 107, 46, 32>>,
       <<84, 104, 101, 32, 105, 109, 112, 108, 105, 99, 97, 116, 105, 111, 110, 115, 32, 111, 102, 32, 116, 104, 105, 115, 32, 97, 114, 101, 32, 115, 105, 103, 110, 105, 102, 105, 99, 97, 110, 116, 46, 32>>,
       <<83, 101, 118, 101, 114, 97, 108, 32, 102, 97, 99, 116, 111, 114, 115, 32, 99, 111, 110, 116, 114, 105, 98, 117, 116, 101, 32, 116, 111, 32, 116, 104, 105, 115, 32, 111, 117, 116, 99, 111, 109, 101, 46, 32>>,
       <<84, 104, 105, 115, 32, 114, 101, 112, 114, 101, 115, 101, 110, 116, 115, 32, 97, 110, 32, 105, 109, 112, 111, 114, 116, 97, 110, 116, 32, 100, 101, 118, 101, 108, 111, 112, 109, 101, 110, 116, 46, 32>>,
       <<77, 117, 108, 116, 105, 112, 108, 101, 32, 112, 101, 114, 115, 112, 101, 99, 116, 105, 118, 101, 115, 32, 99, 97, 110, 32, 98, 101, 32, 97, 112, 112, 108, 105, 101, 100, 32, 116, 111, 32, 116, 104, 105, 115, 32, 115, 105, 116, 117, 97, 116, 105, 111, 110, 46, 32>> >>

\* makeParagraphMedium.elaborations
\*   "This represents an important consideration. "
\*   "The pattern continues in subsequent examples. "
mediumElaborations ==
    <<
       <<84, 104, 105, 115, 32, 114, 101, 112, 114, 101, 115, 101, 110, 116, 115, 32, 97, 110, 32, 105, 109, 112, 111, 114, 116, 97, 110, 116, 32, 99, 111, 110, 115, 105, 100, 101, 114, 97, 116, 105, 111, 110, 46, 32>>,
       <<84, 104, 101, 32, 112, 97, 116, 116, 101, 114, 110, 32, 99, 111, 110, 116, 105, 110, 117, 101, 115, 32, 105, 110, 32, 115, 117, 98, 115, 101, 113, 117, 101, 110, 116, 32, 101, 120, 97, 109, 112, 108, 101, 115, 46, 32>> >>

\* "The following explores multiple perspectives. "
structuralMarker ==
    <<84, 104, 101, 32, 102, 111, 108, 108, 111, 119, 105, 110, 103, 32, 101, 120, 112, 108, 111, 114, 101, 115, 32, 109, 117, 108, 116, 105, 112, 108, 101, 32, 112, 101, 114, 115, 112, 101, 99, 116, 105, 118, 101, 115, 46, 32>>
\* "Might we consider how "
MightWe ==
    <<77, 105, 103, 104, 116, 32, 119, 101, 32, 99, 111, 110, 115, 105, 100, 101, 114, 32, 104, 111, 119, 32>>
\* ". Previously, "
Previously ==
    <<46, 32, 80, 114, 101, 118, 105, 111, 117, 115, 108, 121, 44, 32>>
\* ". Eventually, "
Eventually ==
    <<46, 32, 69, 118, 101, 110, 116, 117, 97, 108, 108, 121, 44, 32>>

\* list[Math.floor(Math.random() * list.length)], the draw given in tenths
Pick(list, draw) == list[((draw * Len(list)) \div 10) + 1]

HasWord(t, W) == CountWords(Tokens(t), W) > 0

\* s.lastIndexOf(pat), or -1
LastIndexOf(s, pat) ==
    LET hits == {i \in 0..(Len(s) - Len(pat)) : MatchAt(s, pat, i)}
    IN  IF hits = {} THEN 0 - 1
        ELSE CHOOSE i \in hits : \A j \in hits : i >= j

\* ss.join(' ')
JoinSpaced(ss) ==
    JoinRange([k \in 1..Len(ss) |-> IF k = 1 THEN ss[k] ELSE <<32>> \o ss[k]], 1, Len(ss))

\* s.replace(/[set]+$/, c): the run of characters of set that ends s becomes c
ReplaceTail(s, set, c) ==
    LET run == Cardinality({i \in 1..Len(s) : \A j \in i..Len(s) : s[j] \in set})
    IN  IF run = 0 THEN s ELSE SubSeq(s, 1, Len(s) - run) \o <<c>>

transformPointOfView(txt, bit, draw) ==
    LET pattern   == IF bit = 0 THEN Pick(firstPerson, draw) ELSE Pick(thirdPerson, draw)
        present   == IF bit = 0 THEN HasWord(txt, firstPersonWords)
                                ELSE HasWord(txt, thirdPersonWords)
        sentences == Sentences(txt)
    IN  IF ~present /\ Len(sentences) > 0
          THEN pattern \o <<32>> \o ReplaceFirst(txt, sentences[1], <<>>)
          ELSE txt

transformTense(txt, bit) ==
    IF bit = 0
      THEN IF ~HasWord(txt, pastMarkers)
             THEN ReplaceFirst(txt, <<46, 32>>, Previously)
             ELSE txt
      ELSE IF ~(HasWord(txt, futureMarkers) \/ CountPairs(txt, Tokens(txt), W_going, W_to) > 0)
             THEN ReplaceFirst(txt, <<46, 32>>, Eventually)
             ELSE txt

\* s.replace(/\b((\w+)\s+(is|are|...))\b/i, (m, p1, p2, verb) => `${verb} ${p2}`):
\* the first word that white space alone separates from one of the verbs
\* changes places with it, a single space between them
MoveVerb(s) ==
    LET tok  == Tokens(s)
        hits == {k \in 1..(Len(tok.word) - 1) :
                    /\ tok.word[k + 1] \in questionVerbs
                    /\ \A i \in (tok.end[k] + 1)..(tok.start[k + 1] - 1) : IsSpace(s[i])}
    IN  IF hits = {} THEN s
        ELSE LET k == CHOOSE h \in hits : \A j \in hits : h <= j
             IN  SubSeq(s, 1, tok.start[k] - 1)
                   \o SubSeq(s, tok.start[k + 1], tok.end[k + 1])
                   \o <<32>>
                   \o SubSeq(s, tok.start[k], tok.end[k])
                   \o SubSeq(s, tok.end[k + 1] + 1, Len(s))

transformRhetoricalStructure(txt, bit) ==
    LET sentences    == Sentences(txt)
        lastSentence == sentences[Len(sentences)]
        head         == Substring(txt, 0, Len(txt) - Len(lastSentence))
    IN  IF Len(sentences) = 0 THEN txt
        ELSE IF bit = 0
          THEN IF EndsWith(Trim(lastSentence), 63) THEN txt
               ELSE IF HasWord(lastSentence, questionVerbs)
                 THEN head \o MoveVerb(lastSentence)
                 ELSE head \o MightWe \o ReplaceTail(Trim(lastSentence), {46, 33}, 63)
          ELSE IF EndsWith(Trim(lastSentence), 33) \/ HasWord(lastSentence, emphasisWords)
                 THEN txt
                 ELSE head \o ReplaceTail(Trim(lastSentence), {46, 63}, 33)

\* options.encodingStrength
Strengths == {"subtle", "moderate", "aggressive"}

transformContentStructure(contentUnit, bit, strength, draw) ==
    IF strength = "aggressive"
      THEN transformTense(
             transformRhetoricalStructure(transformPointOfView(contentUnit, bit, draw), bit), bit)
    ELSE IF strength = "moderate"
      THEN transformRhetoricalStructure(
             IF Len(contentUnit) > 150 THEN transformPointOfView(contentUnit, bit, draw)
                                       ELSE contentUnit,
             bit)
    ELSE transformRhetoricalStructure(contentUnit, bit)

(***************************************************************************)
(* Structural channel: paragraph patterns                                  *)
(***************************************************************************)
makeParagraphShorter(paragraph) ==
    LET sentences == Sentences(paragraph)
    IN  IF Len(sentences) <= 2 THEN paragraph
        ELSE sentences[1] \o <<32>> \o sentences[Len(sentences)]

makeParagraphLonger(paragraph, draw) ==
    LET sentences   == Sentences(paragraph)
        elaboration == Pick(longerElaborations, draw)
        lastSentencePos == LastIndexOf(paragraph, sentences[Len(sentences)])
    IN  IF Len(sentences) = 0 THEN paragraph
        ELSE IF Len(sentences) > 1
          THEN Substring(paragraph, 0, lastSentencePos) \o elaboration
                 \o Substring(paragraph, lastSentencePos, Len(paragraph))
          ELSE paragraph \o <<32>> \o elaboration

makeParagraphMedium(paragraph, draw) ==
    LET sentences == Sentences(paragraph)
    IN  IF Len(sentences) = 0 THEN paragraph
        ELSE IF Len(sentences) > 3 THEN JoinSpaced(SubSeq(sentences, 1, 3))
        ELSE IF Len(sentences) < 2 THEN paragraph \o <<32>> \o Pick(mediumElaborations, draw)
        ELSE paragraph

\* units are taken four at a time; the k-th group of three or four carries
\* bit k of bitsToEncode, and a unit past the last bit, or in a last group of
\* one or two, is left as it is
transformParagraphPatterns(contentUnits, bitsToEncode, tape) ==
    LET n == Len(contentUnits)
    IN  IF n < 4 THEN contentUnits
        ELSE [u \in 1..n |->
                LET i       == ((u - 1) \div 4) * 4
                    j       == (u - 1) % 4
                    section == Min2(i + 4, n) - i
                    bitIndex == i \div 4
                IN  IF bitIndex < Len(bitsToEncode) /\ section >= 3
                      THEN IF bitsToEncode[bitIndex + 1] = 48
                             THEN IF j % 2 = 0
                                    THEN makeParagraphShorter(contentUnits[u])
                                    ELSE makeParagraphLonger(contentUnits[u], Random(tape, u, 0))
                             ELSE makeParagraphMedium(contentUnits[u], Random(tape, u, 0))
                      ELSE contentUnits[u]]

(***************************************************************************)
(* Structural channel: hideDataStructurally                                *)
(***************************************************************************)
\* DEFAULT_OPTIONS
DefaultMinContentLength == 1000
DefaultMaxEncodableBits == 64

\* ss.join('\n\n')
JoinParagraphs(ss) ==
    JoinRange([k \in 1..Len(ss) |-> IF k = 1 THEN ss[k] ELSE <<10, 10>> \o ss[k]], 1, Len(ss))

\* text.length < options.minContentLength
BadContentTooShort(txt, options) == Len(txt) <= options.minContentLength
ContentTooShort(txt, options) == Len(txt) < options.minContentLength

hideDataStructurally(txt, dataToHide, options, tape) ==
    IF ContentTooShort(txt, options) THEN Throw
    ELSE
      LET bitsToEncode == lengthBinary(binaryData(dataToHide)) \o binaryData(dataToHide)
          maxBits      == Min2(options.maxEncodableBits, Len(bitsToEncode))
          patterned    == transformParagraphPatterns(
                              splitContentIntoUnits(txt),
                              Substring(bitsToEncode, 0, Min2(maxBits, 16)),
                              tape)
          contentUnits == [u \in 1..Len(patterned) |->
                              LET bitIndex == (u - 1) + 16
                              IN  IF bitIndex < maxBits /\ bitIndex < Len(bitsToEncode)
                                    THEN transformContentStructure(
                                             patterned[u],
                                             bitsToEncode[bitIndex + 1] - 48,
                                             options.encodingStrength,
                                             Random(tape, u, 1))
                                    ELSE patterned[u]]
      IN  Str(structuralMarker \o JoinParagraphs(contentUnits))

(***************************************************************************)
(* Structural channel: extractHiddenStructuralData                         *)
(***************************************************************************)
\* "The following explores multiple perspectives." (the marker less its space)
markerSentence == SubSeq(structuralMarker, 1, Len(structuralMarker) - 1)

\* the lengths of a section rise at each even step and fall at each odd one
shortLongPattern(section) ==
    \A j \in 0..(Len(section) - 2) :
        IF j % 2 = 0
          THEN Len(section[j + 1]) < Len(section[j + 2])
          ELSE Len(section[j + 1]) > Len(section[j + 2])

\* one bit for each section of three or four units, sixteen at most
SectionBits(contentUnits) ==
    LET n        == Len(contentUnits)
        sections == [k \in 1..((n + 3) \div 4) |->
                        SubSeq(contentUnits, 4 * (k - 1) + 1, Min2(4 * k, n))]
        usable   == SelectIdx([k \in 1..Len(sections) |-> Len(sections[k]) >= 3])
    IN  [b \in 1..Min2(Len(usable), 16) |->
            IF shortLongPattern(sections[usable[b]]) THEN 48 ELSE 49]

\* the bit read from one unit: point of view, then the rhetorical values,
\* then tense, dialectic and complexity
UnitBit(analysis) ==
    IF analysis.pov = "first" THEN 48
    ELSE IF analysis.pov = "third" THEN 49
    ELSE IF \E k \in 1..Len(analysis.rhetorical) : analysis.rhetorical[k] = EndingQuestion THEN 48
    ELSE IF \E k \in 1..Len(analysis.rhetorical) : analysis.rhetorical[k] = EndingEmphasis THEN 49
    ELSE IF analysis.tense = "past" THEN 48
    ELSE IF analysis.tense = "future" THEN 49
    ELSE IF analysis.dialectic = "narrative" THEN 48
    ELSE IF analysis.dialectic = "argumentative" THEN 49
    ELSE IF ~analysis.complexity.nan /\ analysis.complexity.num < 12 * analysis.complexity.den
      THEN 48
    ELSE 49

\* the section bits, then one bit for each unit from the first, up to 64 bits
BadExtractStructuralBits(contentUnits) ==
    SectionBits(contentUnits)
      \o [u \in 1..Len(contentUnits) |-> UnitBit(analyzeContentUnit(contentUnits[u]))]
extractStructuralBits(contentUnits) ==
    LET sectionBits == SectionBits(contentUnits)
        units       == Min2(Len(contentUnits), Max2(0, 64 - Len(sectionBits)))
    IN  sectionBits \o [u \in 1..units |-> UnitBit(analyzeContentUnit(contentUnits[u]))]

extractHiddenStructuralData(t) ==
    IF ~Includes(t, markerSentence) THEN Null
    ELSE
      LET contentUnits == splitContentIntoUnits(t)
      IN  IF Len(contentUnits) < 4 THEN Null
          ELSE
            LET extractedBits == extractStructuralBits(contentUnits)
                dataLength    == ParseInt2(Substring(extractedBits, 0, 16))
            IN  IF Len(extractedBits) < 16 THEN Null
                ELSE IF Len(extractedBits) < 16 + dataLength THEN Null
                ELSE Str(WholeBytesOfBits(Substring(extractedBits, 16, 16 + dataLength)))

\* the bits extractHiddenStructuralData has put into extractedBits when it
\* returns: none when it returns at the test for the marker or at the test
\* on the number of units
structuralBitsRead(t) ==
    IF ~Includes(t, markerSentence) THEN <<>>
    ELSE IF Len(splitContentIntoUnits(t)) < 4 THEN <<>>
    ELSE extractStructuralBits(splitContentIntoUnits(t))

(***************************************************************************)
(* JSON values: numbers, strings, booleans, null, undefined, and objects   *)
(* whose fields hold such values                                           *)
(***************************************************************************)
JValue(t, n, s, keys, vals) == [t |-> t, n |-> n, s |-> s, keys |-> keys, vals |-> vals]

JNum(n)          == JValue("num", n, <<>>, <<>>, <<>>)
JStr(s)          == JValue("str", 0, s, <<>>, <<>>)
JBool(b)         == JValue("bool", IF b THEN 1 ELSE 0, <<>>, <<>>, <<>>)
JNull            == JValue("null", 0, <<>>, <<>>, <<>>)
JUndefined       == JValue("undefined", 0, <<>>, <<>>, <<>>)
JObj(keys, vals) == JValue("obj", 0, <<>>, keys, vals)

\* the truth value JavaScript gives v in a condition
Truthy(v) ==
    CASE v.t = "num"  -> v.n # 0
      [] v.t = "str"  -> v.s # <<>>
      [] v.t = "bool" -> v.n = 1
      [] v.t = "obj"  -> TRUE
      [] OTHER        -> FALSE

\* v.k for a value that is neither null nor undefined (reading a property
\* of those throws): the field's value, or undefined
GetField(v, k) ==
    LET hits == {i \in 1..Len(v.keys) : v.keys[i] = k}
    IN  IF v.t # "obj" \/ hits = {} THEN JUndefined
        ELSE v.vals[CHOOSE i \in hits : \A j \in hits : i >= j]

\* a || b
OrElse(a, b) == IF Truthy(a) THEN a ELSE b

\* n.toString() for a natural number
RECURSIVE ToDecimal(_)
ToDecimal(n) == IF n < 10 THEN <<48 + n>> ELSE ToDecimal(n \div 10) \o <<48 + (n % 10)>>

\* the characters JSON.stringify writes without an escape
PlainChar(c) == c >= 32 /\ c # 34 /\ c # 92

W_null  == <<110, 117, 108, 108>>
W_true  == <<116, 114, 117, 101>>
W_false == <<102, 97, 108, 115, 101>>

\* JSON.stringify of a value that is not an object (strings of plain characters)
StringifyScalar(v) ==
    CASE v.t = "num"  -> ToDecimal(v.n)
      [] v.t = "str"  -> <<34>> \o v.s \o <<34>>
      [] v.t = "bool" -> IF v.n = 1 THEN W_true ELSE W_false
      [] OTHER        -> W_null

\* JSON.stringify(v): fields holding undefined are left out
Stringify(v) ==
    IF v.t # "obj" THEN StringifyScalar(v)
    ELSE LET kept  == SelectIdx([i \in 1..Len(v.keys) |-> v.vals[i].t # "undefined"])
             pairs == [k \in 1..Len(kept) |->
                          (IF k = 1 THEN <<>> ELSE <<44>>)
                            \o <<34>> \o v.keys[kept[k]] \o <<34, 58>>
                            \o StringifyScalar(v.vals[kept[k]])]
         IN  <<123>> \o Join(pairs) \o <<125>>

IsDigit(c) == c >= 48 /\ c <= 57

RECURSIVE ParseDecimal(_)
ParseDecimal(s) ==
    IF Len(s) = 0 THEN 0
    ELSE 10 * ParseDecimal(SubSeq(s, 1, Len(s) - 1)) + (s[Len(s)] - 48)

\* outcome of JSON.parse: a value, or a SyntaxError
Parsed(v)   == [ok |-> TRUE, value |-> v]
SyntaxError == [ok |-> FALSE, value |-> JUndefined]

\* JSON.parse of a text with no white space that is not an object
ParseScalar(s) ==
    IF s = W_null THEN Parsed(JNull)
    ELSE IF s = W_true THEN Parsed(JBool(TRUE))
    ELSE IF s = W_false THEN Parsed(JBool(FALSE))
    ELSE IF /\ Len(s) >= 1
            /\ \A i \in 1..Len(s) : IsDigit(s[i])
            /\ (Len(s) = 1 \/ s[1] # 48)
      THEN Parsed(JNum(ParseDecimal(s)))
    ELSE IF /\ Len(s) >= 2
            /\ s[1] = 34
            /\ s[Len(s)] = 34
            /\ \A i \in 2..(Len(s) - 1) : PlainChar(s[i])
      THEN Parsed(JStr(SubSeq(s, 2, Len(s) - 1)))
    ELSE SyntaxError

\* is position i of s outside every string literal
Unquoted(s, i) == Cardinality({j \in 1..(i - 1) : s[j] = 34}) % 2 = 0

\* JSON.parse of "key":scalar
ParseMember(s) ==
    LET colons == {i \in 1..Len(s) : s[i] = 58 /\ Unquoted(s, i)}
        c      == CHOOSE i \in colons : \A j \in colons : i <= j
        key    == ParseScalar(SubSeq(s, 1, c - 1))
        val    == ParseScalar(SubSeq(s, c + 1, Len(s)))
    IN  IF colons = {} THEN [ok |-> FALSE, key |-> <<>>, value |-> JUndefined]
        ELSE [ok |-> key.ok /\ key.value.t = "str" /\ val.ok,
              key |-> key.value.s, value |-> val.value]

\* JSON.parse(s), for texts with no white space, escapes, arrays, signs,
\* fractions or nested objects: those a payload of this model can be
ParseJSON(s) ==
    IF Len(s) >= 2 /\ s[1] = 123 /\ s[Len(s)] = 125
      THEN LET inner   == SubSeq(s, 2, Len(s) - 1)
               commas  == SelectIdx([i \in 1..Len(inner) |-> inner[i] = 44 /\ Unquoted(inner, i)])
               members == [k \in 1..(Len(commas) + 1) |->
                             ParseMember(SubSeq(inner,
                                 IF k = 1 THEN 1 ELSE commas[k - 1] + 1,
                                 IF k = Len(commas) + 1 THEN Len(inner) ELSE commas[k] - 1))]
           IN  IF inner = <<>> THEN Parsed(JObj(<<>>, <<>>))
               ELSE IF \A k \in 1..Len(members) : members[k].ok
                 THEN Parsed(JObj([k \in 1..Len(members) |-> members[k].key],
                                  [k \in 1..Len(members) |-> members[k].value]))
               ELSE SyntaxError
      ELSE ParseScalar(s)

(***************************************************************************)
(* KeyManager: the identities and their key pairs, in insertion order      *)
(***************************************************************************)
\* a signature names the private key that made it and the content it was
\* made over: it verifies under the matching public key over that content,
\* and under no other key or content
SignatureOf(key, content) == [key |-> key, content |-> content]

NoSignature == [key |-> 0, content |-> <<>>]   \* signWithKey returned null
NoName      == "null"                           \* verifySignature returned null

\* this.keyPairs.set(name, keyPair): a name already held keeps its place
generateNewKeyPair(keyPairs, name, key) ==
    IF \E i \in 1..Len(keyPairs) : keyPairs[i].name = name
      THEN [i \in 1..Len(keyPairs) |->
               IF keyPairs[i].name = name THEN [name |-> name, key |-> key]
                                          ELSE keyPairs[i]]
      ELSE Append(keyPairs, [name |-> name, key |-> key])

\* this.keyPairs.get(name)
KeyIndex(keyPairs, name) == {i \in 1..Len(keyPairs) : keyPairs[i].name = name}

signWithKey(keyPairs, name, content) ==
    IF KeyIndex(keyPairs, name) = {} THEN NoSignature
    ELSE SignatureOf(keyPairs[CHOOSE i \in KeyIndex(keyPairs, name) : TRUE].key, content)

\* verifier.verify(keyPair.publicKey, signature)
BadVerifies(key, content, signature) == signature.key = key
Verifies(key, content, signature) == signature = SignatureOf(key, content)

\* the first identity, in insertion order, whose key verifies
verifySignature(keyPairs, content, signature) ==
    LET hits == {i \in 1..Len(keyPairs) : Verifies(keyPairs[i].key, content, signature)}
    IN  IF hits = {} THEN NoName
        ELSE keyPairs[CHOOSE i \in hits : \A j \in hits : i <= j].name

(***************************************************************************)
(* Orchestrator: encodeEnhancedContent                                     *)
(***************************************************************************)
K_subset      == <<115, 117, 98, 115, 101, 116>>
K_id          == <<105, 100>>
K_creator     == <<99, 114, 101, 97, 116, 111, 114>>
V_stylometric == <<115, 116, 121, 108, 111, 109, 101, 116, 114, 105, 99>>
V_structural  == <<115, 116, 114, 117, 99, 116, 117, 114, 97, 108>>

\* the length from which the structural layer is applied, and the options
\* it is called with
StructuralGateLength         == 800
OrchestratorMinContentLength == 800
OrchestratorMaxEncodableBits == 64

StructuralOptions(strength) ==
    [minContentLength |-> OrchestratorMinContentLength,
     maxEncodableBits |-> OrchestratorMaxEncodableBits,
     encodingStrength |-> strength]

NoPackage ==
    [tag |-> "null", content |-> <<>>, signature |-> NoSignature,
     layers |-> <<>>, originalLength |-> 0, finalLength |-> 0]

\* JSON.stringify({ subset: layer, id: metadata.id || metadata.creator })
SubsetData(metadata, layer) ==
    Stringify(JObj(<<K_subset, K_id>>,
                   <<JStr(layer), OrElse(GetField(metadata, K_id), GetField(metadata, K_creator))>>))

\* the structural layer is applied when enabled and the content so far is
\* at least 800 characters long
BadStructuralGate(options, processedContent) ==
    options.useStructural /\ Len(processedContent) > StructuralGateLength
StructuralGate(options, processedContent) ==
    options.useStructural /\ Len(processedContent) >= StructuralGateLength

\* reading metadata.id of null throws
SubsetThrows(metadata, options) ==
    ~options.redundantEncoding /\ metadata.t \in {"null", "undefined"}

\* what a layer other than the zero-width one is given to hide
LayerData(metadata, options, layer) ==
    IF options.redundantEncoding THEN Stringify(metadata) ELSE SubsetData(metadata, layer)

\* Layer 1: the content after the zero-width layer
ZeroWidthLayer(originalContent, metadata, options) ==
    IF options.useZeroWidth THEN hideDataInText(originalContent, Stringify(metadata))
                            ELSE originalContent

\* Layer 2: the content after the stylometric layer, or the throw
StylometricLayer(processedContent, metadata, options, tape) ==
    IF ~options.useStylometric THEN Str(processedContent)
    ELSE IF SubsetThrows(metadata, options) THEN Throw
    ELSE hideDataStylometrically(processedContent,
                                 LayerData(metadata, options, V_stylometric), tape)

\* Layer 3: the content after the structural layer, or the throw
StructuralLayer(stylometric, metadata, options, tape) ==
    IF stylometric.tag = "throw" THEN Throw
    ELSE IF ~StructuralGate(options, stylometric.val) THEN stylometric
    ELSE IF SubsetThrows(metadata, options) THEN Throw
    ELSE hideDataStructurally(stylometric.val,
                              LayerData(metadata, options, V_structural),
                              StructuralOptions(options.structuralStrength), tape)

\* the signed package, or null when a layer threw or the signer is unknown
BadSignedPackage(originalContent, stylometric, structural, keyPairs, signerName, options) ==
    IF structural.tag = "throw" THEN NoPackage
    ELSE [tag |-> "package",
          content |-> structural.val,
          signature |-> signWithKey(keyPairs, signerName, structural.val),
          layers |-> (IF options.useZeroWidth THEN <<"zero-width">> ELSE <<>>)
                       \o (IF options.useStylometric THEN <<"stylometric">> ELSE <<>>)
                       \o (IF StructuralGate(options, stylometric.val)
                             THEN <<"structural">> ELSE <<>>),
          originalLength |-> Len(originalContent),
          finalLength |-> Len(structural.val)]
SignedPackage(originalContent, stylometric, structural, keyPairs, signerName, options) ==
    IF structural.tag = "throw" THEN NoPackage
    ELSE IF signWithKey(keyPairs, signerName, structural.val) = NoSignature THEN NoPackage
    ELSE [tag |-> "package",
          content |-> structural.val,
          signature |-> signWithKey(keyPairs, signerName, structural.val),
          layers |-> (IF options.useZeroWidth THEN <<"zero-width">> ELSE <<>>)
                       \o (IF options.useStylometric THEN <<"stylometric">> ELSE <<>>)
                       \o (IF StructuralGate(options, stylometric.val)
                             THEN <<"structural">> ELSE <<>>),
          originalLength |-> Len(originalContent),
          finalLength |-> Len(structural.val)]

\* the layers are applied one after the other, each to the outcome of the
\* one before
encodeEnhancedContent(originalContent, metadata, keyPairs, signerName, options, tape) ==
    CHOOSE package \in
        { SignedPackage(originalContent, layers[1], layers[2], keyPairs, signerName, options) :
            layers \in
              { <<stylometric, StructuralLayer(stylometric, metadata, options, tape)>> :
                  stylometric \in
                    { StylometricLayer(afterZeroWidth, metadata, options, tape) :
                        afterZeroWidth \in
                          {ZeroWidthLayer(originalContent, metadata, options)} } } } : TRUE

(***************************************************************************)
(* Orchestrator: decodeEnhancedContent                                     *)
(***************************************************************************)
\* the function returned null (its catch block ran)
NoResult ==
    [tag |-> "null", metadata |-> JNull, signerName |-> NoName,
     extractionSource |-> "none", integrity |-> FALSE]

Result(metadata, signerName, extractionSource, integrity) ==
    [tag |-> "result", metadata |-> metadata, signerName |-> signerName,
     extractionSource |-> extractionSource, integrity |-> integrity]

\* what one layer adds to extractionResults: nothing when the decoder
\* returned null or the empty string, or when JSON.parse threw
Extraction(source, extracted) ==
    LET parsedData == ParseJSON(extracted.val)
    IN  IF extracted.tag = "str" /\ extracted.val # <<>> /\ parsedData.ok
          THEN << [source |-> source, data |-> parsedData.value] >>
          ELSE <<>>

\* the layers in the order they are tried
extractionResults(encodedContent) ==
    Extraction("structural", extractHiddenStructuralData(encodedContent))
      \o Extraction("stylometric", extractHiddenStylometricData(encodedContent))
      \o Extraction("zero-width", extractHiddenData(encodedContent))

\* reading .subset of a null result, or .id of a null primary, throws
ComparisonThrows(primary, current) ==
    \/ current.t = "null"
    \/ Truthy(GetField(current, K_subset)) /\ primary.t = "null"

\* the comparison of one later result with the primary one
Mismatch(primary, current) ==
    IF Truthy(GetField(current, K_subset))
      THEN /\ Truthy(GetField(primary, K_id))
           /\ GetField(current, K_id) # GetField(primary, K_id)
      ELSE Stringify(current) # Stringify(primary)

\* the calls decodeEnhancedContent makes, in order
CallsWhenUnverified == <<"verifySignature">>
CallsWhenVerified ==
    <<"verifySignature", "extractHiddenStructuralData",
      "extractHiddenStylometricData", "extractHiddenData">>

\* the part of decodeEnhancedContent that follows a verified signature:
\* the result, the calls made on the way to it, and what was extracted
ExtractVerified(results, signerName) ==
    [result |->
        IF Len(results) = 0 THEN Result(JNull, signerName, "none", FALSE)
        ELSE IF \E i \in 2..Len(results) : ComparisonThrows(results[1].data, results[i].data)
          THEN NoResult
        ELSE Result(results[1].data, signerName, results[1].source,
                    ~\E i \in 2..Len(results) : Mismatch(results[1].data, results[i].data)),
     calls |-> CallsWhenVerified,
     extractionResults |-> results]

BadDecodeEnhancedContent(encodedContent, signature, keyPairs) ==
    CHOOSE decoded \in
        { ExtractVerified(results, verifySignature(keyPairs, encodedContent, signature)) :
            results \in {extractionResults(encodedContent)} } : TRUE
decodeEnhancedContent(encodedContent, signature, keyPairs) ==
    IF verifySignature(keyPairs, encodedContent, signature) = NoName
      THEN [result |-> Result(JNull, NoName, "none", FALSE),
            calls  |-> CallsWhenUnverified,
            extractionResults |-> <<>>]
      ELSE CHOOSE decoded \in
               { ExtractVerified(results, verifySignature(keyPairs, encodedContent, signature)) :
                   results \in {extractionResults(encodedContent)} } : TRUE

\* content.replace(/[\u200B-\u200D]/g, '')
StripZeroWidth(content) ==
    LET kept == SelectIdx([i \in 1..Len(content) |-> content[i] \notin {ZWSP, ZWNJ, ZWJ}])
    IN  [k \in 1..Len(kept) |-> content[kept[k]]]

(***************************************************************************)
(* Inputs of the zero-width sessions                                       *)
(***************************************************************************)
MaxHostLen    == 2     \* every host text over HostChars up to this length
MaxWords      == 12    \* and host texts of 1..MaxWords words "ab "
MaxPayloadLen == 2     \* every payload over PayloadBytes up to this length
MaxRawBits    == 17    \* raw hidden blocks of 0..MaxRawBits symbols

HostChars    == {97, 32, 46}          \* 'a', ' ', '.'
PayloadBytes == {0, 104, 255}         \* NUL, 'h', U+00FF

SeqsUpTo(S, n) == UNION {[1..k -> S] : k \in 0..n}

WordsText(w) == [i \in 1..(3 * w) |-> IF i % 3 = 0 THEN 32 ELSE 96 + (i % 3)]

HostTexts == SeqsUpTo(HostChars, MaxHostLen) \cup {WordsText(w) : w \in 1..MaxWords}

Payloads == SeqsUpTo(PayloadBytes, MaxPayloadLen) \cup {<<104, 105>>}

\* the longest payload the 16-bit prefix can describe (65,528 bits), and the
\* shortest one it cannot (65,536 bits)
MaxPrefixValue == Pow2(16) - 1
LongestPayload == [i \in 1..(MaxPrefixValue \div 8) |-> 104]
OverlongPayload == [i \in 1..((MaxPrefixValue \div 8) + 1) |-> 104]

\* payloads of one character above U+00FF: U+0100 and the euro sign
WidePayloads == {<<256>>, <<8364>>}

\* a text holding a hidden block whose 16-bit prefix declares L bits but which
\* carries only k symbols after the prefix (all ZWNJ), or fewer than 16 symbols
RawBlock(n, L) ==
    LET full == EncodeSymbols(PadStart(ToBinary(L), 16)) \o Repeat(ZWNJ, MaxRawBits)
    IN  <<97, 32>> \o Repeat(ZWJ, 3) \o SubSeq(full, 1, n) \o Repeat(ZWJ, 3) \o <<97>>

RawTexts == {RawBlock(n, L) : n \in 0..(16 + MaxRawBits), L \in {0, 8, 16}}

(***************************************************************************)
(* Zero-width sessions: encode then decode, or decode a raw text           *)
(***************************************************************************)
InitZW ==
    /\ pc = "start"
    /\ \/ text \in HostTexts /\ data \in Payloads
       \/ text = WordsText(MaxWords) /\ data \in {LongestPayload, OverlongPayload}
       \/ text = WordsText(MaxWords) /\ data \in WidePayloads
       \/ text \in RawTexts /\ data = <<>>
    /\ rnd = NoRandom
    /\ opt = NoOptions
    /\ enc = None
    /\ dec = None
    /\ NoOrchestrator

ZWEncode ==
    /\ pc = "start"
    /\ text \notin RawTexts
    /\ enc' = Str(hideDataInText(text, data))
    /\ pc' = "encoded"
    /\ UNCHANGED <<inputs, orch, dec>>

ZWDecode ==
    /\ pc = "encoded"
    /\ dec' = extractHiddenData(enc.val)
    /\ pc' = "decoded"
    /\ UNCHANGED <<inputs, orch, enc>>

ZWDecodeRaw ==
    /\ pc = "start"
    /\ text \in RawTexts
    /\ dec' = extractHiddenData(text)
    /\ pc' = "rawdecoded"
    /\ UNCHANGED <<inputs, orch, enc>>

NextZW == ZWEncode \/ ZWDecode \/ ZWDecodeRaw

SpecZW == InitZW /\ [][NextZW]_vars

(***************************************************************************)
(* Inputs of the stylometric sessions                                      *)
(***************************************************************************)
MaxStyleSentences == 25   \* sentences in the paragraph that is encoded into
MaxFirstSentences == 2    \* sentences in the first paragraph: 0..this
MaxParagraphs     == 4    \* paragraphs: 2..this (with 4, the second is blank)

SentPlain  == <<97, 98, 32, 99, 100, 32, 101, 102, 46>>              \* "ab cd ef."
SentAdverb == <<97, 98, 32, 118, 101, 114, 121, 32, 99, 100, 46>>    \* "ab very cd."
SentBang   == <<97, 98, 32, 99, 100, 32, 101, 102, 33>>              \* "ab cd ef!"
SentShort  == <<97, 98, 46>>                                         \* "ab."
SentIntro  == <<73, 110, 116, 114, 111, 32, 103, 111, 101, 115, 32, 104, 101, 114, 101, 46>>
                                                                     \* "Intro goes here."
SentEnd    == <<84, 104, 101, 32, 101, 110, 100, 32, 105, 115, 32, 104, 101, 114, 101, 46>>
                                                                     \* "The end is here."

\* n sentences, the k-th of shape pat[k mod Len(pat)], separated by spaces
ParagraphOf(n, pat) ==
    Join([k \in 1..n |-> pat[((k - 1) % Len(pat)) + 1] \o (IF k < n THEN <<32>> ELSE <<>>)])

StylePatterns ==
    { <<SentPlain>>, <<SentPlain, SentAdverb>>, <<SentBang, SentPlain>>,
      <<SentPlain, SentShort>> }

StyleSentenceCounts == {MaxStyleSentences - k : k \in {0, 1, 9, 10}}

\* first paragraph of n0 sentences, then the body paragraph; with 3 paragraphs
\* a closing paragraph follows, with 4 a blank paragraph precedes the body,
\* with 5 and more further closing paragraphs follow
StyleText(n0, npar, n, pat) ==
    LET first == ParagraphOf(n0, <<SentIntro>>)
        body  == ParagraphOf(n, pat)
        sep   == <<10, 10>>
    IN  IF npar = 2 THEN first \o sep \o body
        ELSE IF npar = 3 THEN first \o sep \o body \o sep \o SentEnd
        ELSE first \o sep \o sep \o body
               \o Join([k \in 1..(npar - 3) |-> sep \o SentEnd])

StyleTexts ==
    { StyleText(n0, npar, n, pat) :
        n0 \in 0..MaxFirstSentences, npar \in 2..MaxParagraphs,
        n \in StyleSentenceCounts, pat \in StylePatterns }

StylePayloads == { <<>>, <<104>> }

(***************************************************************************)
(* Stylometric sessions: encode, then decode what the encoder returned     *)
(***************************************************************************)
InitStyle ==
    /\ pc = "start"
    /\ text \in StyleTexts
    /\ data \in StylePayloads
    /\ rnd \in RandomTapes
    /\ opt = NoOptions
    /\ enc = None
    /\ dec = None
    /\ NoOrchestrator

StyleEncode ==
    /\ pc = "start"
    /\ enc' = hideDataStylometrically(text, data, rnd)
    /\ pc' = "encoded"
    /\ UNCHANGED <<inputs, orch, dec>>

StyleDecode ==
    /\ pc = "encoded"
    /\ enc.tag = "str"
    /\ dec' = extractHiddenStylometricData(enc.val)
    /\ pc' = "decoded"
    /\ UNCHANGED <<inputs, orch, enc>>

\* extractStylometricBits on what the encoder returned
StyleBits ==
    /\ pc = "encoded"
    /\ enc.tag = "str"
    /\ dec' = extractStylometricBits(enc.val)
    /\ pc' = "bitsread"
    /\ UNCHANGED <<inputs, orch, enc>>

NextStyle == StyleEncode \/ StyleDecode \/ StyleBits

SpecStyle == InitStyle /\ [][NextStyle]_vars

(***************************************************************************)
(* Sentence sessions: encodeStylometricBits on one paragraph               *)
(***************************************************************************)
MaxBitCount        == 3    \* bit strings of 0..MaxBitCount bits
MaxParagraphLength == 6    \* paragraphs of 1..MaxParagraphLength sentences

SentenceTexts ==
    {ParagraphOf(n, pat) : n \in 1..MaxParagraphLength, pat \in StylePatterns}

InitSentence ==
    /\ pc = "start"
    /\ text \in SentenceTexts
    /\ data \in SeqsUpTo({48, 49}, MaxBitCount)     \* bitsToEncode
    /\ rnd \in RandomTapes
    /\ opt = NoOptions
    /\ enc = None
    /\ dec = None
    /\ NoOrchestrator

\* encodeStylometricBits(text, bitsToEncode)
SentenceEncode ==
    /\ pc = "start"
    /\ enc' = encodeStylometricBits(text, data, rnd)
    /\ pc' = "restyled"
    /\ UNCHANGED <<inputs, orch, dec>>

NextSentence == SentenceEncode

SpecSentence == InitSentence /\ [][NextSentence]_vars

(***************************************************************************)
(* Inputs of the structural sessions                                       *)
(***************************************************************************)
MaxStructParagraphs == 6
LongDocParagraphs   == 64

\* "The river runs past the old mill and under the stone bridge. Water turns the wheel all day and most of the night. Nobody owns the land now, and the fields beyond the fence grow wild every summer." (195 characters)
ParaNeutral ==
    <<84, 104, 101, 32, 114, 105, 118, 101, 114, 32, 114, 117, 110, 115, 32, 112, 97, 115, 116, 32, 116, 104, 101, 32, 111, 108, 100, 32, 109, 105, 108, 108, 32, 97, 110, 100, 32, 117, 110, 100, 101, 114, 32, 116, 104, 101, 32, 115, 116, 111, 110, 101, 32, 98, 114, 105, 100, 103, 101, 46, 32, 87, 97, 116, 101, 114, 32, 116, 117, 114, 110, 115, 32, 116, 104, 101, 32, 119, 104, 101, 101, 108, 32, 97, 108, 108, 32, 100, 97, 121, 32, 97, 110, 100, 32, 109, 111, 115, 116, 32, 111, 102, 32, 116, 104, 101, 32, 110, 105, 103, 104, 116, 46, 32, 78, 111, 98, 111, 100, 121, 32, 111, 119, 110, 115, 32, 116, 104, 101, 32, 108, 97, 110, 100, 32, 110, 111, 119, 44, 32, 97, 110, 100, 32, 116, 104, 101, 32, 102, 105, 101, 108, 100, 115, 32, 98, 101, 121, 111, 110, 100, 32, 116, 104, 101, 32, 102, 101, 110, 99, 101, 32, 103, 114, 111, 119, 32, 119, 105, 108, 100, 32, 101, 118, 101, 114, 121, 32, 115, 117, 109, 109, 101, 114, 46>>

\* "I was walking home when the storm broke over the hills. My coat was soaked before the first corner. The road is long and the lamps are few, so walking in the rain can take an hour or more." (188 characters)
ParaFirstPerson ==
    <<73, 32, 119, 97, 115, 32, 119, 97, 108, 107, 105, 110, 103, 32, 104, 111, 109, 101, 32, 119, 104, 101, 110, 32, 116, 104, 101, 32, 115, 116, 111, 114, 109, 32, 98, 114, 111, 107, 101, 32, 111, 118, 101, 114, 32, 116, 104, 101, 32, 104, 105, 108, 108, 115, 46, 32, 77, 121, 32, 99, 111, 97, 116, 32, 119, 97, 115, 32, 115, 111, 97, 107, 101, 100, 32, 98, 101, 102, 111, 114, 101, 32, 116, 104, 101, 32, 102, 105, 114, 115, 116, 32, 99, 111, 114, 110, 101, 114, 46, 32, 84, 104, 101, 32, 114, 111, 97, 100, 32, 105, 115, 32, 108, 111, 110, 103, 32, 97, 110, 100, 32, 116, 104, 101, 32, 108, 97, 109, 112, 115, 32, 97, 114, 101, 32, 102, 101, 119, 44, 32, 115, 111, 32, 119, 97, 108, 107, 105, 110, 103, 32, 105, 110, 32, 116, 104, 101, 32, 114, 97, 105, 110, 32, 99, 97, 110, 32, 116, 97, 107, 101, 32, 97, 110, 32, 104, 111, 117, 114, 32, 111, 114, 32, 109, 111, 114, 101, 46>>

\* "They built the hall in a single season. It seems larger than the plans allowed. Her notes describe every beam and nail, and his drawings show the roof from above. Who will read them now?" (186 characters)
ParaThirdPerson ==
    <<84, 104, 101, 121, 32, 98, 117, 105, 108, 116, 32, 116, 104, 101, 32, 104, 97, 108, 108, 32, 105, 110, 32, 97, 32, 115, 105, 110, 103, 108, 101, 32, 115, 101, 97, 115, 111, 110, 46, 32, 73, 116, 32, 115, 101, 101, 109, 115, 32, 108, 97, 114, 103, 101, 114, 32, 116, 104, 97, 110, 32, 116, 104, 101, 32, 112, 108, 97, 110, 115, 32, 97, 108, 108, 111, 119, 101, 100, 46, 32, 72, 101, 114, 32, 110, 111, 116, 101, 115, 32, 100, 101, 115, 99, 114, 105, 98, 101, 32, 101, 118, 101, 114, 121, 32, 98, 101, 97, 109, 32, 97, 110, 100, 32, 110, 97, 105, 108, 44, 32, 97, 110, 100, 32, 104, 105, 115, 32, 100, 114, 97, 119, 105, 110, 103, 115, 32, 115, 104, 111, 119, 32, 116, 104, 101, 32, 114, 111, 111, 102, 32, 102, 114, 111, 109, 32, 97, 98, 111, 118, 101, 46, 32, 87, 104, 111, 32, 119, 105, 108, 108, 32, 114, 101, 97, 100, 32, 116, 104, 101, 109, 32, 110, 111, 119, 63>>

\* "Nothing else remains of the village except a row of chimneys, a well with no rope, and the long wall that once kept the sheep out of the orchard behind the church." (163 characters)
ParaSingle ==
    <<78, 111, 116, 104, 105, 110, 103, 32, 101, 108, 115, 101, 32, 114, 101, 109, 97, 105, 110, 115, 32, 111, 102, 32, 116, 104, 101, 32, 118, 105, 108, 108, 97, 103, 101, 32, 101, 120, 99, 101, 112, 116, 32, 97, 32, 114, 111, 119, 32, 111, 102, 32, 99, 104, 105, 109, 110, 101, 121, 115, 44, 32, 97, 32, 119, 101, 108, 108, 32, 119, 105, 116, 104, 32, 110, 111, 32, 114, 111, 112, 101, 44, 32, 97, 110, 100, 32, 116, 104, 101, 32, 108, 111, 110, 103, 32, 119, 97, 108, 108, 32, 116, 104, 97, 116, 32, 111, 110, 99, 101, 32, 107, 101, 112, 116, 32, 116, 104, 101, 32, 115, 104, 101, 101, 112, 32, 111, 117, 116, 32, 111, 102, 32, 116, 104, 101, 32, 111, 114, 99, 104, 97, 114, 100, 32, 98, 101, 104, 105, 110, 100, 32, 116, 104, 101, 32, 99, 104, 117, 114, 99, 104, 46>>

\* "Rain fell on the town. Carts stood in the square. Lamps burned at noon." (71 characters)
ParaPlain ==
    <<82, 97, 105, 110, 32, 102, 101, 108, 108, 32, 111, 110, 32, 116, 104, 101, 32, 116, 111, 119, 110, 46, 32, 67, 97, 114, 116, 115, 32, 115, 116, 111, 111, 100, 32, 105, 110, 32, 116, 104, 101, 32, 115, 113, 117, 97, 114, 101, 46, 32, 76, 97, 109, 112, 115, 32, 98, 117, 114, 110, 101, 100, 32, 97, 116, 32, 110, 111, 111, 110, 46>>

\* "Alice-042" (9 characters)
NinePayload ==
    <<65, 108, 105, 99, 101, 45, 48, 52, 50>>

StructParagraphs == <<ParaNeutral, ParaFirstPerson, ParaThirdPerson, ParaSingle>>

\* n paragraphs taken in turn from StructParagraphs, starting at the v-th
StructDoc(n, v) ==
    JoinParagraphs([i \in 1..n |-> StructParagraphs[((i + v) % Len(StructParagraphs)) + 1]])

\* n short paragraphs of three plain sentences
PlainDoc(n) == JoinParagraphs([i \in 1..n |-> ParaPlain])

StructTexts == {StructDoc(MaxStructParagraphs - k, v) : k \in 0..2, v \in 0..3}
LongTexts   == {PlainDoc(LongDocParagraphs - 1), PlainDoc(LongDocParagraphs)}

\* the first n characters of a document of short paragraphs
GateDocParagraphs == 14
DocOfLength(n) == SubSeq(PlainDoc(GateDocParagraphs), 1, n)

StructPayloads == {<<>>, <<104>>, NinePayload}

\* the options of the orchestrator's call, and the defaults
OrchestratorOptions == {StructuralOptions(strength) : strength \in Strengths}
DEFAULT_OPTIONS ==
    [minContentLength |-> DefaultMinContentLength,
     maxEncodableBits |-> DefaultMaxEncodableBits,
     encodingStrength |-> "moderate"]

\* texts handed to the decoder as they are: one paragraph of plain
\* sentences, with or without the marker in front, that segments into
\* two to five units
MaxRawSentences == 14
RawStructTexts ==
    {(IF marked THEN structuralMarker ELSE <<>>) \o ParagraphOf(n, <<SentPlain>>) :
        n \in 6..MaxRawSentences, marked \in BOOLEAN}

\* one-sentence paragraphs (and one of three short sentences), each showing
\* one feature the decoder looks at
UnitFirst == <<73, 32, 115, 97, 119, 32, 109, 121, 32, 109, 97, 112, 46>>
    \* "I saw my map."
UnitThird == <<72, 101, 32, 115, 97, 119, 32, 104, 105, 115, 32, 109, 97, 112, 46>>
    \* "He saw his map."
UnitQuestion == <<82, 97, 105, 110, 32, 102, 101, 108, 108, 63>>
    \* "Rain fell?"
UnitEmphasis == <<82, 97, 105, 110, 32, 102, 101, 108, 108, 32, 102, 97, 115, 116, 33>>
    \* "Rain fell fast!"
UnitPast == <<82, 97, 105, 110, 32, 119, 97, 115, 32, 99, 111, 108, 100, 46>>
    \* "Rain was cold."
UnitFuture == <<82, 97, 105, 110, 32, 119, 105, 108, 108, 32, 102, 97, 108, 108, 46>>
    \* "Rain will fall."
UnitNarrative == <<84, 104, 101, 110, 32, 114, 97, 105, 110, 32, 102, 101, 108, 108, 46>>
    \* "Then rain fell."
UnitArgument == <<84, 104, 117, 115, 32, 114, 97, 105, 110, 32, 102, 101, 108, 108, 46>>
    \* "Thus rain fell."
UnitSimple == <<97, 98, 46, 32, 97, 98, 46, 32, 97, 98, 46>>
    \* "ab. ab. ab."
UnitPlain == <<97, 98, 32, 99, 100, 32, 101, 102, 46>>
    \* "ab cd ef."
UnitLikened == <<82, 97, 105, 110, 32, 119, 105, 108, 108, 32, 102, 97, 108, 108, 32, 108, 105, 107, 101, 32, 115, 110, 111, 119, 46>>
    \* "Rain will fall like snow."
FeatureUnits ==
    <<UnitFirst, UnitThird, UnitQuestion, UnitEmphasis, UnitPast, UnitFuture,
      UnitNarrative, UnitArgument, UnitSimple, UnitPlain, UnitLikened>>

\* the marker and FeatureRun paragraphs that follow one another in
\* FeatureUnits, from each starting point
FeatureRun == 4
FeatureTexts ==
    {JoinParagraphs(<<markerSentence>>
        \o [k \in 1..FeatureRun |-> FeatureUnits[((r + k - 2) % Len(FeatureUnits)) + 1]]) :
        r \in 1..Len(FeatureUnits)}

\* options that cut the bit string short: inside the prefix, and inside the
\* payload bits
CapInPrefix  == 8
CapInPayload == 24
CappedOptions ==
    {[StructuralOptions("subtle") EXCEPT !.maxEncodableBits = cap] :
        cap \in {CapInPrefix, CapInPayload}}

\* every text handed to the decoder as it is
RawStructInputs == RawStructTexts \cup FeatureTexts

\* texts one character shorter than a minimum content length, and exactly
\* as long
BoundaryTexts ==
    {DocOfLength(m - k) : m \in {OrchestratorMinContentLength, DefaultMinContentLength},
                          k \in 0..1}

(***************************************************************************)
(* Structural sessions: encode, then decode what the encoder returned      *)
(***************************************************************************)
InitStruct ==
    /\ pc = "start"
    /\ \/ /\ text \in StructTexts
          /\ data \in StructPayloads
          /\ opt \in OrchestratorOptions \cup {DEFAULT_OPTIONS}
       \/ /\ text \in LongTexts
          /\ data \in {<<>>, <<104>>}
          /\ opt \in OrchestratorOptions
       \/ /\ text \in BoundaryTexts
          /\ data \in {<<>>, <<104>>}
          /\ opt \in {StructuralOptions("moderate"), DEFAULT_OPTIONS}
       \/ /\ text \in RawStructInputs
          /\ data = <<>>
          /\ opt = DEFAULT_OPTIONS
    /\ rnd \in RandomTapes
    /\ enc = None
    /\ dec = None
    /\ NoOrchestrator

StructEncode ==
    /\ pc = "start"
    /\ text \notin RawStructInputs
    /\ enc' = hideDataStructurally(text, data, opt, rnd)
    /\ pc' = "encoded"
    /\ UNCHANGED <<inputs, orch, dec>>

StructDecode ==
    /\ pc = "encoded"
    /\ enc.tag = "str"
    /\ dec' = extractHiddenStructuralData(enc.val)
    /\ pc' = "decoded"
    /\ UNCHANGED <<inputs, orch, enc>>

StructDecodeRaw ==
    /\ pc = "start"
    /\ text \in RawStructInputs
    /\ dec' = extractHiddenStructuralData(text)
    /\ pc' = "rawdecoded"
    /\ UNCHANGED <<inputs, orch, enc>>

NextStruct == StructEncode \/ StructDecode \/ StructDecodeRaw

SpecStruct == InitStruct /\ [][NextStruct]_vars

(***************************************************************************)
(* Capacity sessions: the structural encoder and decoder at their limits   *)
(* on the number of bits, with a document of more units than the decoder   *)
(* reads, a payload longer than the decoder returns, and a caller's        *)
(* maxEncodableBits that cuts the bit string                               *)
(***************************************************************************)
InitCap ==
    /\ pc = "start"
    /\ \/ /\ text = PlainDoc(LongDocParagraphs)
          /\ data \in {<<104>>, <<104, 105>>}
          /\ opt \in CappedOptions \cup {StructuralOptions("subtle")}
       \/ /\ text \in StructTexts
          /\ data = NinePayload
          /\ opt \in CappedOptions \cup {DEFAULT_OPTIONS}
       \/ /\ text \in RawStructInputs
          /\ data = <<>>
          /\ opt = DEFAULT_OPTIONS
    /\ rnd \in RandomTapes
    /\ enc = None
    /\ dec = None
    /\ NoOrchestrator

SpecCap == InitCap /\ [][NextStruct]_vars

(***************************************************************************)
(* Unit sessions: one bit is placed on one content unit, then read back    *)
(***************************************************************************)
\* the units: the short feature units and the paragraphs over 150 characters
UnitTexts == {FeatureUnits[k] : k \in 1..Len(FeatureUnits)}
               \cup {StructParagraphs[k] : k \in 1..Len(StructParagraphs)}

InitUnit ==
    /\ pc = "start"
    /\ text \in UnitTexts
    /\ data \in {<<48>>, <<49>>}       \* the bit to place, '0' or '1'
    /\ opt \in OrchestratorOptions
    /\ rnd \in RandomTapes
    /\ enc = None
    /\ dec = None
    /\ NoOrchestrator

\* transformContentStructure(contentUnit, bit, options)
UnitTransform ==
    /\ pc = "start"
    /\ enc' = Str(transformContentStructure(text, data[1] - 48, opt.encodingStrength,
                                            Random(rnd, 1, 1)))
    /\ pc' = "transformed"
    /\ UNCHANGED <<inputs, orch, dec>>

\* the bit the decoder's unit loop reads from the transformed unit
UnitRead ==
    /\ pc = "transformed"
    /\ dec' = Str(<<UnitBit(analyzeContentUnit(enc.val))>>)
    /\ pc' = "read"
    /\ UNCHANGED <<inputs, orch, enc>>

NextUnit == UnitTransform \/ UnitRead

SpecUnit == InitUnit /\ [][NextUnit]_vars

(***************************************************************************)
(* Analysis sessions: analyzeContentUnit on units of counted indicators    *)
(***************************************************************************)
MaxIndicators == 3     \* indicator words of one category in a unit

\* the indicator words of the three categories of each axis
AxisWords ==
    << << <<105>>, <<121, 111, 117>>, <<104, 101>> >>,                        \* i, you, he
       << <<119, 97, 115>>, <<105, 115>>, <<119, 105, 108, 108>> >>,          \* was, is, will
       << <<116, 104, 117, 115>>, <<115, 101, 101, 109, 115>>,
          <<116, 104, 101, 110>> >> >>                                        \* thus, seems, then

\* one sentence: c[k] times the k-th word of the axis, then "ab."
CountedUnit(axis, c) ==
    Join([k \in 1..3 |-> Join([i \in 1..c[k] |-> AxisWords[axis][k] \o <<32>>])])
      \o <<97, 98, 46>>

CountedUnits ==
    {CountedUnit(axis, c) : axis \in 1..3, c \in [1..3 -> 0..MaxIndicators]}

InitAnalysis ==
    /\ pc = "start"
    /\ text \in CountedUnits
    /\ data = <<>>
    /\ opt = NoOptions
    /\ rnd = NoRandom
    /\ enc = None
    /\ dec = None
    /\ NoOrchestrator

\* analyzeContentUnit(text)
Analyze ==
    /\ pc = "start"
    /\ dec' = [tag |-> "analysis", val |-> analyzeContentUnit(text)]
    /\ pc' = "analysed"
    /\ UNCHANGED <<inputs, orch, enc>>

NextAnalysis == Analyze

SpecAnalysis == InitAnalysis /\ [][NextAnalysis]_vars

(***************************************************************************)
(* Group sessions: length patterns are imposed on the groups of a list of  *)
(* units, then the pattern of each group is read back                      *)
(***************************************************************************)
GroupBits == 2     \* groups of a unit list, one bit each

\* units of one, two, three and four sentences
GroupUnits ==
    <<UnitPlain, SentIntro \o <<32>> \o SentEnd, ParaPlain, ParaThirdPerson>>

\* 4 * GroupBits units, or one fewer, taken in turn from two kinds of unit
GroupTexts ==
    {JoinParagraphs([u \in 1..(4 * GroupBits - short) |->
                        GroupUnits[IF u % 2 = 1 THEN odd ELSE even]]) :
        odd \in 1..Len(GroupUnits), even \in 1..Len(GroupUnits), short \in 0..1}

InitGroup ==
    /\ pc = "start"
    /\ text \in GroupTexts
    /\ data \in [1..GroupBits -> {48, 49}]      \* the bits to impose
    /\ opt = NoOptions
    /\ rnd \in RandomTapes
    /\ enc = None
    /\ dec = None
    /\ NoOrchestrator

\* transformParagraphPatterns(contentUnits, bitsToEncode, options)
GroupTransform ==
    /\ pc = "start"
    /\ enc' = [tag |-> "units",
               val |-> transformParagraphPatterns(splitContentIntoUnits(text), data, rnd)]
    /\ pc' = "patterned"
    /\ UNCHANGED <<inputs, orch, dec>>

\* the section loop of extractHiddenStructuralData on the patterned units
GroupRead ==
    /\ pc = "patterned"
    /\ dec' = Str(SectionBits(enc.val))
    /\ pc' = "patternread"
    /\ UNCHANGED <<inputs, orch, enc>>

NextGroup == GroupTransform \/ GroupRead

SpecGroup == InitGroup /\ [][NextGroup]_vars

(***************************************************************************)
(* Inputs of the orchestrator sessions                                     *)
(***************************************************************************)
CarrierUnits      == 20    \* paragraphs of a carrier text
LongUnitSentences == 9     \* sentences of its long paragraphs
MaxOrchSentences  == 270   \* sentences of the long paragraph of FiveDocument

\* "Like so." and "Just so.": two words, so the stylometric decoder passes
\* them over; the first holds a metaphor word, the second does not
SentLike == <<76, 105, 107, 101, 32, 115, 111, 46>>
SentJust == <<74, 117, 115, 116, 32, 115, 111, 46>>

Absent     == [tag |-> "none", val |-> <<>>]
Carried(p) == [tag |-> "str", val |-> p]

\* the 16-bit length and the bits of a payload
FramedBits(p) == lengthBinary(binaryData(p)) \o binaryData(p)

\* the block hideDataInText writes for payload p
HiddenFrame(p) == Repeat(ZWJ, 3) \o EncodeSymbols(FramedBits(p)) \o Repeat(ZWJ, 3)

\* A text of CarrierUnits paragraphs, short and long in turn, that holds a
\* payload for each layer that is to carry one. The structural bits lie in
\* the paragraphs' first sentences (every group of four reads as bit 0, and
\* paragraph u gives bit 5 + u), the stylometric bits in the sentences of
\* three words from the third sentence of the text on, and the zero-width
\* block at the end; the two markers stand in the last paragraph.
CarrierText(structural, stylometric, zeroWidth) ==
    LET sb == IF structural.tag = "str" THEN FramedBits(structural.val) ELSE <<>>
        yb == IF stylometric.tag = "str" THEN FramedBits(stylometric.val) ELSE <<>>
        before(u) == ((u - 1) \div 2) * (1 + LongUnitSentences) + ((u - 1) % 2)
        count(u)  == IF u = CarrierUnits \/ u % 2 = 0 THEN LongUnitSentences ELSE 1
        sentence(u, j) ==
            LET k == before(u) + j - 1
            IN  IF k >= 1 /\ k <= Len(yb) /\ yb[k] = 49 THEN SentAdverb ELSE SentPlain
        unit(u) ==
            (IF 5 + u <= Len(sb) /\ sb[5 + u] = 48 THEN SentLike ELSE SentJust)
              \o (IF u = CarrierUnits /\ structural.tag = "str"
                    THEN <<32>> \o markerSentence ELSE <<>>)
              \o (IF u = CarrierUnits /\ stylometric.tag = "str"
                    THEN <<32>> \o Slice(markerText, 0, 0 - 1) ELSE <<>>)
              \o Join([j \in 1..count(u) |-> <<32>> \o sentence(u, j)])
              \o (IF u = CarrierUnits /\ zeroWidth.tag = "str"
                    THEN HiddenFrame(zeroWidth.val) ELSE <<>>)
    IN  JoinParagraphs([u \in 1..CarrierUnits |-> unit(u)])

\* payloads: JSON texts, and "h", which is not one
P_one      == <<49>>
P_two      == <<50>>
P_h        == <<104>>
P_id1      == <<123, 34, 105, 100, 34, 58, 49, 125>>
P_id2      == <<123, 34, 105, 100, 34, 58, 50, 125>>
P_subset1  == <<123, 34, 115, 117, 98, 115, 101, 116, 34, 58, 34, 97, 34, 44, 34, 105, 100, 34, 58, 49, 125>>
P_subset2  == <<123, 34, 115, 117, 98, 115, 101, 116, 34, 58, 34, 97, 34, 44, 34, 105, 100, 34, 58, 50, 125>>

StructuralCarried == {Absent, Carried(P_one), Carried(P_h)}
StylometricCarried == {Absent, Carried(P_one), Carried(W_null), Carried(P_id1)}
ZeroWidthCarried ==
    {Absent} \cup {Carried(p) : p \in {P_one, P_two, W_null, P_id1, P_id2,
                                        P_subset1, P_subset2}}

CarrierTexts ==
    {CarrierText(a, b, c) :
        a \in StructuralCarried, b \in StylometricCarried, c \in ZeroWidthCarried}

\* the identities of the key manager, and their keys
Alice == [name |-> "alice", key |-> 1]
Bob   == [name |-> "bob", key |-> 2]

\* the key of an identity the key manager does not hold
StrangerKey == Bob.key + 1

\* signatures handed in with a content: the two identities' own, a
\* stranger's, and one Alice made over the empty content
SignaturesFor(content) ==
    {SignatureOf(Alice.key, content), SignatureOf(Bob.key, content),
     SignatureOf(StrangerKey, content), SignatureOf(Alice.key, <<>>)}

\* metadata handed to the encoder
M_id1  == JObj(<<K_id>>, <<JNum(1)>>)
M_null == JNull
M_one  == JNum(1)
Metadatas == {M_id1, M_null}

\* "The intro goes right here now."
SentLongIntro == <<84, 104, 101, 32, 105, 110, 116, 114, 111, 32, 103, 111, 101, 115, 32, 114, 105, 103, 104, 116, 32, 104, 101, 114, 101, 32, 110, 111, 119, 46>>

\* five paragraphs: one sentence, the long paragraph, three closing sentences
FiveDocument ==
    JoinParagraphs(<<SentLongIntro, ParagraphOf(MaxOrchSentences, <<SentPlain>>),
                     SentEnd, SentEnd, SentEnd>>)
ShortDocument == StyleText(1, 3, MaxStyleSentences, <<SentPlain>>)

\* many short paragraphs: a document the structural layer has room in
ManyDocument == PlainDoc(LongDocParagraphs)

\* documents that the zero-width layer, hiding the metadata 1, brings to
\* one character less than the structural gate and to exactly the gate
GateDocuments ==
    {DocOfLength(StructuralGateLength - Len(HiddenFrame(P_one)) - k) : k \in 0..1}

EnhancedOptions ==
    [useZeroWidth : BOOLEAN, useStylometric : BOOLEAN, useStructural : BOOLEAN,
     structuralStrength : {"moderate"}, redundantEncoding : BOOLEAN]

(***************************************************************************)
(* Orchestrator sessions: encode and decode the package, as it is or with  *)
(* its zero-width characters stripped; or decode a signed content          *)
(***************************************************************************)
\* options under which the five-paragraph document is encoded: two or three layers
LongOptions == {o \in EnhancedOptions : o.useZeroWidth /\ o.useStylometric}

\* options under which the gate documents are encoded: with the zero-width
\* layer, without the stylometric one
GateOptions == {o \in EnhancedOptions : o.useZeroWidth /\ ~o.useStylometric}

\* options under which the many-paragraph document is encoded: the
\* zero-width and the structural layer, in redundant mode
ManyOptions ==
    {o \in EnhancedOptions :
        o.useZeroWidth /\ ~o.useStylometric /\ o.useStructural /\ o.redundantEncoding}

InitOrch ==
    /\ keyManager = <<Alice, Bob>>
    /\ generated = Len(keyManager)
    /\ enc = None
    /\ dec = None
    /\ calls = <<>>
    /\ found = <<>>
    /\ \/ /\ pc = "start"
          /\ \/ /\ text = ShortDocument
                /\ opt \in EnhancedOptions
                /\ rnd \in RandomTapes
                /\ signer \in {"alice", "carol"}
                /\ data \in Metadatas
             \/ /\ text = FiveDocument
                /\ opt \in LongOptions
                /\ rnd = NoRandom
                /\ signer = "alice"
                /\ data \in Metadatas
             \/ /\ text = ManyDocument
                /\ opt \in ManyOptions
                /\ rnd \in RandomTapes
                /\ signer = "alice"
                /\ data = M_one
             \/ /\ text \in GateDocuments
                /\ opt \in GateOptions
                /\ rnd \in RandomTapes
                /\ signer = "alice"
                /\ data = M_one
          /\ given = [content |-> <<>>, signature |-> NoSignature]
       \/ /\ pc = "signed"
          /\ text = <<>>
          /\ data = JNull
          /\ rnd = NoRandom
          /\ opt = NoOptions
          /\ signer = NoName
          /\ \E content \in CarrierTexts :
                \E signature \in SignaturesFor(content) :
                    given = [content |-> content, signature |-> signature]

OrchEncode ==
    /\ pc = "start"
    /\ enc' = encodeEnhancedContent(text, data, keyManager, signer, opt, rnd)
    /\ given' = [content |-> enc'.content, signature |-> enc'.signature]
    /\ pc' = "encoded"
    /\ UNCHANGED <<inputs, dec, calls, found>>

OrchDecode ==
    /\ pc \in {"encoded", "signed"}
    /\ pc = "encoded" => enc.tag = "package"
    /\ \E decoded \in {decodeEnhancedContent(given.content, given.signature, keyManager)} :
           /\ dec' = decoded.result
           /\ calls' = decoded.calls
           /\ found' = decoded.extractionResults
    /\ pc' = "decoded"
    /\ UNCHANGED <<inputs, enc, given>>

\* the package's content without its zero-width characters, decoded with
\* the package's signature
OrchStripDecode ==
    /\ pc = "encoded"
    /\ enc.tag = "package"
    /\ given' = [content |-> StripZeroWidth(enc.content), signature |-> enc.signature]
    /\ \E decoded \in {decodeEnhancedContent(given'.content, given'.signature, keyManager)} :
           /\ dec' = decoded.result
           /\ calls' = decoded.calls
           /\ found' = decoded.extractionResults
    /\ pc' = "stripdecoded"
    /\ UNCHANGED <<inputs, enc>>

NextOrch == OrchEncode \/ OrchDecode \/ OrchStripDecode

SpecOrch == InitOrch /\ [][NextOrch]_vars

(***************************************************************************)
(* Key manager sessions: key pairs are generated and regenerated, contents *)
(* are signed, and the latest signature is verified against a content      *)
(***************************************************************************)
MaxGenerated  == 4     \* key pairs generated in a session
MaxContentLen == 2     \* every content over ContentChars up to this length

KeyNames     == {"alice", "bob", "carol"}
ContentChars == {97, 98}
Contents     == SeqsUpTo(ContentChars, MaxContentLen)

InitKeys ==
    /\ pc = "keys"
    /\ keyManager = <<>>
    /\ generated = 0
    /\ signer = NoName
    /\ given = [content |-> <<>>, signature |-> NoSignature]
    /\ text = <<>>
    /\ dec = None
    /\ data = <<>>
    /\ rnd = NoRandom
    /\ opt = NoOptions
    /\ enc = None
    /\ calls = <<>>
    /\ found = <<>>

\* generateNewKeyPair(name): the key pair is one never generated before
KeyGenerate ==
    /\ generated < MaxGenerated
    /\ \E name \in KeyNames \ {"carol"} :
          keyManager' = generateNewKeyPair(keyManager, name, generated + 1)
    /\ generated' = generated + 1
    /\ pc' = "keys"
    /\ UNCHANGED <<text, data, rnd, opt, enc, dec, signer, given, calls, found>>

\* signWithKey(name, content)
KeySign ==
    /\ \E name \in KeyNames, content \in Contents :
          /\ signer' = name
          /\ given' = [content |-> content,
                       signature |-> signWithKey(keyManager, name, content)]
    /\ pc' = "signed"
    /\ UNCHANGED <<text, data, rnd, opt, enc, dec, keyManager, generated, calls, found>>

\* verifySignature(content, signature) with the latest signature
KeyVerify ==
    /\ given.signature # NoSignature
    /\ \E content \in Contents :
          /\ text' = content
          /\ dec' = verifySignature(keyManager, content, given.signature)
    /\ pc' = "verified"
    /\ UNCHANGED <<data, rnd, opt, enc, keyManager, generated, signer, given, calls, found>>

NextKeys == KeyGenerate \/ KeySign \/ KeyVerify

SpecKeys == InitKeys /\ [][NextKeys]_vars

(***************************************************************************)
(* Claims                                                                  *)
(***************************************************************************)
NoReserved(t) == \A i \in 1..Len(t) : t[i] \notin {ZWSP, ZWNJ, ZWJ}

\* C1: invisible channel round trip. For every host text holding none of
\* U+200B/U+200C/U+200D (the empty text and texts shorter than the nominal
\* insertion offset included) and every payload of byte-valued characters
\* whose bit length is at most 65,535,
\* extractHiddenData(hideDataInText(text, p)) = p.
C1_InvisibleRoundTrip ==
    (/\ pc = "decoded"
     /\ NoReserved(text)
     /\ \A i \in 1..Len(data) : data[i] < 256
     /\ 8 * Len(data) <= MaxPrefixValue)
    => dec = Str(data)

\* "hi" recovered from a host text long enough for the nominal offset
C1_Witness ==
    /\ pc = "decoded"
    /\ data = <<104, 105>>
    /\ position(text) < Len(text) - 1
    /\ dec = Str(data)

\* C2: structure channel round trip. For every text at least
\* minContentLength long that segments into five or more units and every
\* payload (the nine-byte payload on a six-paragraph document at moderate
\* strength among them), extractHiddenStructuralData(hideDataStructurally(
\* text, p, options)) = p, whatever filler the encoder draws.
C2_StructureRoundTrip ==
    (/\ pc = "decoded"
     /\ Len(text) >= opt.minContentLength
     /\ Len(splitContentIntoUnits(text)) >= 5)
    => dec = Str(data)

\* C3: style channel round trip. For every text of two or more paragraphs
\* whose encoded paragraph offers at least as many sentences of 3 or more
\* words as there are bits, and every payload p,
\* extractHiddenStylometricData(hideDataStylometrically(text, p)) = p, for
\* every outcome of the random choices and any number of sentences in the
\* first paragraph.
EligibleCount(t) ==
    Cardinality({i \in 1..Len(Sentences(t)) : ~TooShort(Trim(Sentences(t)[i]))})

C3_StyleRoundTrip ==
    (/\ pc = "decoded"
     /\ Len(SplitParagraphs(text)) >= 2
     /\ \E i \in 1..Len(SplitParagraphs(text)) :
            EligibleCount(SplitParagraphs(text)[i]) >= 16 + 8 * Len(data))
    => dec = Str(data)

\* the style channel does recover some payloads
C3_SomeRoundTrip ==
    /\ pc = "decoded"
    /\ data = <<104>>
    /\ dec = Str(data)

\* the symbols a text carries between the first preamble and the epilogue
HiddenBlock(t) ==
    LET preambleIndex == IndexOf(t, Repeat(ZWJ, 3), 0)
    IN  Substring(t, preambleIndex + 3, IndexOf(t, Repeat(ZWJ, 3), preambleIndex + 3))

\* the length a block's first sixteen symbols declare
DeclaredLength(block) == ParseInt2(DecodeSymbols(Slice(block, 0, 16)))

\* C4: length-prefix bound check. Whenever the bits recovered from a text
\* number fewer than 16, or their 16-bit prefix declares a length L with
\* fewer than 16 + L bits available, the decoder returns null and never a
\* shortened or garbled payload string (stated here for extractHiddenData).
C4_LengthPrefixBound ==
    (/\ pc = "rawdecoded"
     /\ \/ Len(HiddenBlock(text)) < 16
        \/ Len(HiddenBlock(text)) < 16 + DeclaredLength(HiddenBlock(text)))
    => dec = Null

\* C5: PayloadTooLarge. An encoder fails, producing no encoded text,
\* whenever the payload's bit length exceeds 65,535 (stated here for
\* hideDataInText).
C5_PayloadTooLarge ==
    (/\ pc = "encoded"
     /\ 8 * Len(data) > MaxPrefixValue)
    => enc = Throw

\* the orchestrator has decoded the content it was given
OrchDecoded == pc \in {"decoded", "stripdecoded"}

\* the signature handed in verifies under some key of the key manager
SignatureVerifies ==
    \E i \in 1..Len(keyManager) :
        Verifies(keyManager[i].key, given.content, given.signature)

\* C6: signature gates extraction. decodeEnhancedContent verifies the
\* signature before it tries any channel, and when verifySignature names no
\* identity the result is {metadata: null, signerName: null,
\* extractionSource: 'none', integrity: false} and none of the three channel
\* decoders has been invoked.
C6_SignatureGates ==
    OrchDecoded =>
        /\ calls[1] = "verifySignature"
        /\ ~SignatureVerifies =>
              /\ dec = Result(JNull, NoName, "none", FALSE)
              /\ calls = <<"verifySignature">>

\* a content that carries a payload in all three layers, handed in with a
\* stranger's signature: nothing is extracted
C6_Witness ==
    /\ pc = "decoded"
    /\ given.content = CarrierText(Carried(P_one), Carried(P_id1), Carried(P_id1))
    /\ given.signature = SignatureOf(StrangerKey, given.content)
    /\ dec.extractionSource = "none"
    /\ calls = <<"verifySignature">>

\* C7: primary result by resilience order. When the signature verifies, the
\* channels are tried in the order structural, stylometric, zero-width, every
\* success is recorded, and the metadata and extractionSource returned are
\* those of the first channel in that order that succeeded; a later
\* channel's success never replaces an earlier one's.
C7_PrimaryByOrder ==
    (/\ OrchDecoded
     /\ SignatureVerifies
     /\ Len(found) >= 1)
    => /\ dec.tag = "result"
       /\ dec.metadata = found[1].data
       /\ dec.extractionSource = found[1].source

\* no recovered payload is marked as a subset: the payloads of redundant mode
RedundantPayloads ==
    \A i \in 1..Len(found) : ~Truthy(GetField(found[i].data, K_subset))

\* C8: integrity flag in redundant mode. integrity = true exactly when at
\* least one channel succeeded and every other successful channel's payload
\* is identical to the primary's (one successful channel gives true); when
\* no channel succeeded or the signature failed, integrity is false.
C8_IntegrityRedundant ==
    (OrchDecoded /\ RedundantPayloads)
    => /\ dec.tag = "result"
       /\ dec.integrity =
            (/\ SignatureVerifies
             /\ Len(found) >= 1
             /\ \A i \in 1..Len(found) : found[i].data = found[1].data)

\* C9: integrity flag in partitioned mode. For a package of
\* encodeEnhancedContent with redundantEncoding = false, decoded unmodified,
\* whenever two or more channels succeed, integrity is true if and only if
\* their payloads agree on the field 'id'.
C9_IntegrityPartitioned ==
    (/\ pc = "decoded"
     /\ enc.tag = "package"
     /\ ~opt.redundantEncoding
     /\ Len(found) >= 2)
    => /\ dec.tag = "result"
       /\ dec.integrity =
            (\A i \in 1..Len(found) :
                GetField(found[i].data, K_id) = GetField(found[1].data, K_id))

\* C10: recovery after stripping. For a package encoded in redundant mode
\* with all three layers applied, once every U+200B-U+200D character is
\* removed from its content, decodeEnhancedContent(stripped content, the
\* package's signature, keyManager) returns the original metadata with
\* integrity = true.
C10_RecoveryAfterStripping ==
    (/\ pc = "stripdecoded"
     /\ opt.redundantEncoding
     /\ enc.layers = <<"zero-width", "stylometric", "structural">>)
    => /\ dec.tag = "result"
       /\ dec.metadata = data
       /\ dec.integrity

\* a redundant-mode package has been produced
RedundantPackage == pc = "encoded" /\ enc.tag = "package" /\ opt.redundantEncoding

\* C11: monotonic degradation at channel level. Removing every
\* U+200B/U+200C/U+200D character from a redundant-mode encoded text does
\* not change what extractHiddenStructuralData or
\* extractHiddenStylometricData returns for it.
C11_MonotonicDegradation ==
    RedundantPackage =>
        /\ extractHiddenStructuralData(StripZeroWidth(enc.content))
              = extractHiddenStructuralData(enc.content)
        /\ extractHiddenStylometricData(StripZeroWidth(enc.content))
              = extractHiddenStylometricData(enc.content)

\* the content after the zero-width and the stylometric layer
AfterEarlierLayers ==
    StylometricLayer(ZeroWidthLayer(text, data, opt), data, opt, rnd)

\* the signer has a key
SignerKnown == \E i \in 1..Len(keyManager) : keyManager[i].name = signer

\* C12: encode pipeline order and capacity gate. encodeEnhancedContent
\* applies the enabled channels in the order zero-width, stylometric,
\* structural, each to the output of the one before; encodingInfo.layers
\* lists exactly the channels applied, in that order; 'structural' is
\* applied iff useStructural is set and the text after the earlier layers
\* is at least 800 characters long, and when it is shorter the channel is
\* skipped without failing the encode.
C12_PipelineOrderAndGate ==
    pc = "encoded" =>
        \A earlier \in {AfterEarlierLayers} :
            /\ enc.tag = "package" =>
                  /\ earlier.tag = "str"
                  /\ enc.layers =
                        (IF opt.useZeroWidth THEN <<"zero-width">> ELSE <<>>)
                          \o (IF opt.useStylometric THEN <<"stylometric">> ELSE <<>>)
                          \o (IF opt.useStructural /\ Len(earlier.val) >= 800
                                THEN <<"structural">> ELSE <<>>)
                  /\ enc.content =
                        IF opt.useStructural /\ Len(earlier.val) >= 800
                          THEN hideDataStructurally(
                                   earlier.val, LayerData(data, opt, V_structural),
                                   StructuralOptions(opt.structuralStrength), rnd).val
                          ELSE earlier.val
            /\ (earlier.tag = "str" /\ Len(earlier.val) < 800 /\ SignerKnown) =>
                  /\ enc.tag = "package"
                  /\ enc.content = earlier.val

\* a document shorter than 800 characters that the zero-width layer brings
\* to exactly 800: the structural layer is applied to it
C12_Witness ==
    /\ pc = "encoded"
    /\ enc.tag = "package"
    /\ Len(text) < 800
    /\ Len(AfterEarlierLayers.val) = 800
    /\ enc.layers = <<"zero-width", "structural">>
    /\ enc.content # AfterEarlierLayers.val

\* a document one character shorter: the structural layer is skipped and
\* the package holds the output of the zero-width layer
C12_SkippedWitness ==
    /\ pc = "encoded"
    /\ opt.useStructural
    /\ Len(AfterEarlierLayers.val) = 799
    /\ enc.tag = "package"
    /\ enc.layers = <<"zero-width">>

\* the outcome of the last layer: the stylometric one's when the structural
\* layer is not applied
AfterAllLayers == StructuralLayer(AfterEarlierLayers, data, opt, rnd)

\* C13: no partial package. encodeEnhancedContent returns a package only
\* when every applied channel's encode returned normally and the signer
\* produced a signature; if a channel's encode throws, or signWithKey has
\* no key for signerName, it returns null and no content of the partially
\* applied chain.
C13_NoPartialPackage ==
    pc = "encoded" =>
        \A last \in {AfterAllLayers} :
            /\ enc.tag = "package" <=> (last.tag = "str" /\ SignerKnown)
            /\ enc.tag = "package" =>
                  /\ enc.content = last.val
                  /\ enc.signature # NoSignature
                  /\ verifySignature(keyManager, enc.content, enc.signature) = signer
            /\ enc.tag # "package" => enc = NoPackage

\* the stylometric layer threw for want of sentences: no package, although
\* the zero-width layer had been applied and the signer has a key
C13_Witness ==
    /\ pc = "encoded"
    /\ opt.useZeroWidth
    /\ opt.useStylometric
    /\ opt.redundantEncoding
    /\ SignerKnown
    /\ AfterEarlierLayers = Throw
    /\ enc = NoPackage

\* every layer returned normally, but the signer has no key: no package
C13_UnsignedWitness ==
    /\ pc = "encoded"
    /\ AfterAllLayers.tag = "str"
    /\ ~SignerKnown
    /\ enc = NoPackage

\* the caller is given no payload: no result at all, or a result whose
\* metadata is null and whose extractionSource is 'none'
NoPayloadReported ==
    \/ dec.tag = "null"
    \/ dec.metadata = JNull /\ dec.extractionSource = "none"

\* C14: untrusted and unreadable content are distinguishable.
\* decodeEnhancedContent reports no payload only if the signature failed to
\* verify or every one of the three channels failed; a channel's failure
\* never stops the later channels from being attempted; signerName is null
\* exactly when verification failed, and non-null when all channels failed.
C14_UntrustedVersusUnreadable ==
    OrchDecoded =>
        /\ NoPayloadReported => (~SignatureVerifies \/ Len(found) = 0)
        /\ SignatureVerifies => calls = CallsWhenVerified
        /\ dec.signerName = NoName <=> ~SignatureVerifies

\* C15: capacity boundary. hideDataStructurally fails with the
\* content-too-short error for every text with text.length <
\* options.minContentLength, and for no text with text.length >=
\* options.minContentLength, a length equal to it included.
C15_CapacityBoundary ==
    pc = "encoded" => (enc = Throw <=> Len(text) < opt.minContentLength)

\* a text exactly as long as the minimum is encoded
C15_Witness ==
    /\ pc = "encoded"
    /\ Len(text) = opt.minContentLength
    /\ enc.tag = "str"

\* a text one character shorter is refused
C15_ShortWitness ==
    /\ pc = "encoded"
    /\ Len(text) = opt.minContentLength - 1
    /\ enc = Throw

\* C16: InsufficientUnits. extractHiddenStructuralData returns a failure
\* without reading any bit whenever the marker sentence is absent or the
\* text segments into fewer than 5 content units, so that a text of exactly
\* 4 units is rejected.
C16_InsufficientUnits ==
    (/\ pc = "rawdecoded"
     /\ \/ ~Includes(text, markerSentence)
        \/ Len(splitContentIntoUnits(text)) < 5)
    => /\ dec = Null
       /\ structuralBitsRead(text) = <<>>

\* the sentences of at least 3 words in the paragraph the encoder encodes
\* into: none when it encodes into no paragraph
EligibleInEncoded(t) ==
    LET paragraphs == SplitParagraphs(t)
    IN  IF EncodedParagraph(paragraphs) = 0 THEN 0
        ELSE EligibleCount(paragraphs[EncodedParagraph(paragraphs)])

\* C17: InsufficientSentences. hideDataStylometrically fails whenever the
\* text offers fewer eligible sentences (sentences of at least 3 words in
\* the paragraph it encodes into) than the 16 + L bits to embed; it never
\* returns a marked text in which fewer than 16 + L bits were placed, texts
\* of exactly two paragraphs and paragraphs with short sentences included.
C17_InsufficientSentences ==
    (/\ pc = "encoded"
     /\ EligibleInEncoded(text) < 16 + 8 * Len(data))
    => enc = Throw

\* the key pair the key manager now holds for the signer is the one the
\* latest signature was made with
SignerKeyKept ==
    \E i \in 1..Len(keyManager) :
        keyManager[i].name = signer /\ keyManager[i].key = given.signature.key

\* C18: signature attribution over the key store. After any sequence of
\* generateNewKeyPair and signWithKey calls, verifySignature(content, sig)
\* returns a name n only if sig is a signature of exactly that content
\* under the key pair now stored for n; for a content altered after signing
\* it returns null; for the unaltered content signed by n it returns n as
\* long as n's key pair has not been regenerated since.
C18_SignatureAttribution ==
    pc = "verified" =>
        /\ dec # NoName =>
              \E i \in 1..Len(keyManager) :
                  /\ keyManager[i].name = dec
                  /\ given.signature = SignatureOf(keyManager[i].key, text)
        /\ text # given.content => dec = NoName
        /\ (text = given.content /\ SignerKeyKept) => dec = signer

\* bob signed after alice's key pair had been regenerated, and the
\* unaltered content verifies as bob's
C18_Witness ==
    /\ pc = "verified"
    /\ generated >= 3
    /\ signer = "bob"
    /\ text = given.content
    /\ dec = "bob"

\* a content altered in one character verifies as nobody's
C18_TamperedWitness ==
    /\ pc = "verified"
    /\ SignerKeyKept
    /\ Len(text) = Len(given.content)
    /\ Cardinality({i \in 1..Len(text) : text[i] # given.content[i]}) = 1
    /\ dec = NoName

\* the signer's key pair was regenerated after signing: the unaltered
\* content no longer verifies
C18_RegeneratedWitness ==
    /\ pc = "verified"
    /\ text = given.content
    /\ ~SignerKeyKept
    /\ dec = NoName

\* C19: bit-string format. For every payload string p the encoders build
\* the same bit string: a prefix of exactly 16 bits holding the big-endian
\* binary of the payload bit count, then exactly 8 bits per payload
\* element, so its length is 16 + 8*len(p) and its prefix value 8*len(p)
\* (read here from the symbols hideDataInText placed, and compared with the
\* bitsToEncode of hideDataStylometrically and hideDataStructurally).
C19_BitStringFormat ==
    (pc = "encoded" /\ text \notin RawTexts) =>
        \A bits \in {DecodeSymbols(HiddenBlock(enc.val))} :
            /\ bits = lengthBinary(binaryData(data)) \o binaryData(data)
            /\ Len(bits) = 16 + 8 * Len(data)
            /\ ParseInt2(Slice(bits, 0, 16)) = 8 * Len(data)

\* the bit the fixed order of rules gives a unit: point of view, then the
\* closing of its last sentence, then tense, dialectic, and complexity
PrecedenceBit(unit) ==
    LET analysis == analyzeContentUnit(unit)
        closing  == ClosingPattern(Sentences(unit))
    IN  IF analysis.pov = "first" THEN 48
        ELSE IF analysis.pov = "third" THEN 49
        ELSE IF closing = <<EndingQuestion>> THEN 48
        ELSE IF closing = <<EndingEmphasis>> THEN 49
        ELSE IF analysis.tense = "past" THEN 48
        ELSE IF analysis.tense = "future" THEN 49
        ELSE IF analysis.dialectic = "narrative" THEN 48
        ELSE IF analysis.dialectic = "argumentative" THEN 49
        ELSE IF ~analysis.complexity.nan
                  /\ analysis.complexity.num < 12 * analysis.complexity.den THEN 48
        ELSE 49

\* C20: per-unit decode precedence. The bit extractHiddenStructuralData
\* reads from a unit is decided by the first applicable rule in the order
\* point of view (first -> 0, third -> 1), rhetorical closing (ending
\* question -> 0, ending emphasis -> 1), tense (past -> 0, future -> 1),
\* dialectic (narrative -> 0, argumentative -> 1), and otherwise complexity
\* (< 12 -> 0, else 1); exactly one bit is read per unit, after the bits of
\* the sections.
C20_UnitDecodePrecedence ==
    (/\ pc = "rawdecoded"
     /\ Includes(text, markerSentence)
     /\ Len(splitContentIntoUnits(text)) >= 4)
    => \A contentUnits \in {splitContentIntoUnits(text)} :
           structuralBitsRead(text) =
               SectionBits(contentUnits)
                 \o [u \in 1..Len(contentUnits) |-> PrecedenceBit(contentUnits[u])]

\* C21: per-unit encode/decode symmetry. For every content unit u with at
\* least one sentence, every bit b and every encodingStrength, the bit the
\* decoder's precedence chain reads from transformContentStructure(u, b,
\* options) equals b, whatever point of view, closing and tense u had.
C21_UnitSymmetry ==
    (pc = "read" /\ Len(Sentences(text)) >= 1) => dec = Str(data)

\* the indicator counts of a unit along the three axes
IndicatorCounts(t) ==
    [ pov       |-> << CountWords(Tokens(t), firstPersonWords),
                       CountWords(Tokens(t), secondPersonWords),
                       CountWords(Tokens(t), thirdPersonWords) >>,
      tense     |-> << CountPast(Tokens(t)),
                       CountWords(Tokens(t), presentWords),
                       CountWords(Tokens(t), futureWords)
                         + CountPairs(t, Tokens(t), W_going, W_to) >>,
      dialectic |-> << CountWords(Tokens(t), argumentativeWords),
                       CountWords(Tokens(t), descriptiveWords),
                       CountWords(Tokens(t), narrativeWords) >> ]

\* the category whose count is positive and at least double the combined
\* count of the other two, else 'mixed'
DominanceRule(c, names) ==
    IF \E k \in 1..3 : c[k] > 0 /\ c[k] >= 2 * (Sum3(c) - c[k])
      THEN names[CHOOSE k \in 1..3 : c[k] > 0 /\ c[k] >= 2 * (Sum3(c) - c[k])]
      ELSE "mixed"

\* C22: dominance rule. For all indicator counts, analyzeContentUnit
\* assigns each of point of view, tense and dialectic by the same rule: the
\* category whose indicator count is positive and at least double the
\* combined count of the other two, and 'mixed' in every other case.
C22_DominanceRule ==
    pc = "analysed" =>
        \A counts \in {IndicatorCounts(text)} :
            /\ dec.val.pov = DominanceRule(counts.pov, <<"first", "second", "third">>)
            /\ dec.val.tense = DominanceRule(counts.tense, <<"past", "present", "future">>)
            /\ dec.val.dialectic =
                   DominanceRule(counts.dialectic,
                                 <<"argumentative", "descriptive", "narrative">>)

\* the groups of three or four units among n units taken four at a time
UsableGroups(n) == (n \div 4) + (IF n % 4 = 3 THEN 1 ELSE 0)

NoPlace == [tier |-> "none", index |-> 0]

\* where hideDataStructurally places bit p of bitsToEncode among n units:
\* a prefix bit on the p-th group if there is one, a later bit on unit p - 16
EncoderTarget(n, p) ==
    IF p < 16
      THEN IF n >= 4 /\ p < UsableGroups(n) THEN [tier |-> "group", index |-> p]
                                             ELSE NoPlace
      ELSE IF p - 16 < n THEN [tier |-> "unit", index |-> p - 16]
                         ELSE NoPlace

\* where extractHiddenStructuralData reads position p of extractedBits from,
\* in a text of n units that gave sectionCount section bits: the section
\* bits come first and the unit bits follow them directly
DecoderSource(sectionCount, n, p) ==
    IF p < sectionCount THEN [tier |-> "group", index |-> p]
    ELSE IF p - sectionCount < n THEN [tier |-> "unit", index |-> p - sectionCount]
    ELSE NoPlace

\* C23: two-tier bit addressing agrees between encode and decode. For every
\* unit count n >= 4, position k < 16 of the decoder's bit string is read
\* from the length pattern of the group on which the encoder imposed prefix
\* bit k, and position 16 + i from the unit i on which the encoder placed
\* payload bit 16 + i; all 16 prefix bits are carried by length patterns.
C23_TwoTierAddressing ==
    (/\ pc = "encoded"
     /\ enc.tag = "str"
     /\ Len(splitContentIntoUnits(text)) >= 4)
    => \A n \in {Len(splitContentIntoUnits(text))} :
       \A contentUnits \in {splitContentIntoUnits(enc.val)} :
       \A sectionCount \in {Len(SectionBits(contentUnits))} :
       \A p \in 0..(Min2(opt.maxEncodableBits, 16 + 8 * Len(data)) - 1) :
           (p < 16 \/ p - 16 < n) =>
               /\ EncoderTarget(n, p) # NoPlace
               /\ DecoderSource(sectionCount, Len(contentUnits), p) = EncoderTarget(n, p)

\* Math.abs(currentLength - nextLength) > currentLength * 0.3 for no pair of
\* neighbours: the flag the section loop computes beside shortLongPattern
consistentLength(section) ==
    \A j \in 1..(Len(section) - 1) :
        \A currentLength \in {Len(section[j])}, nextLength \in {Len(section[j + 1])} :
            10 * (IF currentLength >= nextLength THEN currentLength - nextLength
                                                 ELSE nextLength - currentLength)
              <= 3 * currentLength

\* the k-th group of four units (the last may hold fewer)
GroupOf(contentUnits, k) ==
    SubSeq(contentUnits, 4 * (k - 1) + 1, Min2(4 * k, Len(contentUnits)))

\* C24: paragraph-length pattern classification. For every group of 3 or 4
\* unit lengths, extractHiddenStructuralData reads bit 1 only when every
\* pair of neighbouring lengths differs by at most 30% (the medium pattern)
\* and bit 0 only when the lengths alternate short/long; the 30% test takes
\* part in deciding the bit.
C24_PatternClassification ==
    (/\ pc = "rawdecoded"
     /\ Includes(text, markerSentence)
     /\ Len(splitContentIntoUnits(text)) >= 4)
    => \A contentUnits \in {splitContentIntoUnits(text)} :
       \A extractedBits \in {structuralBitsRead(text)} :
       \A k \in 1..UsableGroups(Len(contentUnits)) :
           /\ extractedBits[k] = 49 => consistentLength(GroupOf(contentUnits, k))
           /\ extractedBits[k] = 48 => shortLongPattern(GroupOf(contentUnits, k))

\* C25: group-level encode/decode symmetry. For every group of 3 or 4
\* consecutive units, whatever their sentence counts and lengths, and every
\* bit b, after transformParagraphPatterns imposes the length pattern for b
\* on the group the decoder's classification of the resulting lengths
\* yields b, for every random choice of elaboration sentence.
C25_GroupSymmetry ==
    pc = "patternread" => dec = Str(data)

\* the bit of every sentence of 3 or more words from the third sentence on
AllSentenceBits(t) ==
    LET trimmed == [i \in 1..Len(Sentences(t)) |-> Trim(Sentences(t)[i])]
        read    == SelectIdx([i \in 1..Len(trimmed) |-> i > 2 /\ ~TooShort(trimmed[i])])
    IN  [k \in 1..Len(read) |-> SentenceBit(trimmed[read[k]])]

\* C26: style decode stop rule. extractStylometricBits stops consuming
\* sentences at the first sentence at which 16 + L bits have been
\* collected, L being the value of the first 16 bits; the bit string it
\* returns never holds more than 16 + L bits, so no sentence after the
\* payload contributes a bit.
C26_StyleStopRule ==
    (pc = "bitsread" /\ dec.tag = "str") =>
        \A all \in {AllSentenceBits(enc.val)} :
        \A dataLength \in {ParseInt2(SubSeq(dec.val, 1, 16))} :
            /\ Len(dec.val) <= 16 + dataLength
            /\ dec.val = SubSeq(all, 1, Len(dec.val))
            /\ Len(all) >= 16 + dataLength => Len(dec.val) = 16 + dataLength

\* the payload "h" was read in full and sentences of 3 or more words
\* follow it
C26_Witness ==
    /\ pc = "bitsread"
    /\ dec.tag = "str"
    /\ data = <<104>>
    /\ dec.val = FramedBits(data)
    /\ Len(AllSentenceBits(enc.val)) > Len(dec.val)

\* the sentences of a text, trimmed
TrimmedSentences(t) == [i \in 1..Len(Sentences(t)) |-> Trim(Sentences(t)[i])]

\* the sentences of 3 or more words before the i-th
EligibleBefore(sentences, i) ==
    Cardinality({k \in 1..(i - 1) : ~TooShort(sentences[k])})

\* C27: style encode keeps the sentence sequence. encodeStylometricBits
\* emits every input sentence exactly once and in the original order;
\* sentences of fewer than 3 words are copied unchanged and consume no bit,
\* each sentence of 3 or more words consumes exactly one bit until the bits
\* run out, and the sentences after the last encoded bit are appended
\* unchanged, with no sentence duplicated or dropped.
C27_SentenceSequenceKept ==
    (pc = "restyled" /\ enc.tag = "str") =>
        \A before \in {TrimmedSentences(text)}, after \in {TrimmedSentences(enc.val)} :
            /\ Len(after) = Len(before)
            /\ \A i \in 1..Len(before) :
                   \A bitIndex \in {EligibleBefore(before, i)} :
                       after[i] =
                           IF TooShort(before[i]) \/ bitIndex >= Len(data) THEN before[i]
                           ELSE IF data[bitIndex + 1] = 48
                             THEN EncodeZero(before[i], rnd, i)
                             ELSE EncodeOne(before[i], rnd, i)

\* the offset of the hidden block in the output: a function of the host text
BlockOffset(t) == Max2(0, position(t))

\* C28: invisible encode only inserts reserved characters. For every host
\* text without U+200B/U+200C/U+200D and every payload p, hideDataInText
\* inserts one contiguous block (ZWJ x3, then 16 + 8*len(p) symbols drawn
\* only from ZWSP/ZWNJ, then ZWJ x3) at an offset in [0, len(text)] that
\* depends only on the text, and removing the three reserved characters
\* from the output gives back the host text unchanged.
C28_OnlyReservedInserted ==
    (/\ pc = "encoded"
     /\ text \notin RawTexts
     /\ NoReserved(text))
    => \A offset \in {BlockOffset(text)} :
       \A block \in {SubSeq(enc.val, offset + 4, Len(enc.val) - (Len(text) - offset) - 3)} :
           /\ offset \in 0..Len(text)
           /\ Len(block) = 16 + 8 * Len(data)
           /\ \A k \in 1..Len(block) : block[k] \in {ZWSP, ZWNJ}
           /\ enc.val = SubSeq(text, 1, offset) \o Repeat(ZWJ, 3) \o block \o Repeat(ZWJ, 3)
                           \o SubSeq(text, offset + 1, Len(text))
           /\ StripZeroWidth(enc.val) = text

\* the text the decoder was given
DecodedText == IF pc = "rawdecoded" THEN text ELSE enc.val

\* the number of bits hideDataStructurally may place
PlacedLimit == Min2(opt.maxEncodableBits, 16 + 8 * Len(data))

\* the units after the first pass of hideDataStructurally
PatternedUnits ==
    transformParagraphPatterns(
        splitContentIntoUnits(text),
        Substring(FramedBits(data), 0, Min2(PlacedLimit, 16)),
        rnd)

\* C29: structure decode capacity cap. extractHiddenStructuralData collects
\* at most 64 bits from any text, whatever maxEncodableBits was used at
\* encode, so it never returns a payload longer than 48 bits (6 characters)
\* and fails for every text whose recovered 16-bit prefix declares a length
\* above 48; hideDataStructurally places no bit beyond index
\* min(maxEncodableBits, 16 + L) and raises no error for the bits it leaves
\* out.
C29_DecodeCapacityCap ==
    /\ (pc \in {"decoded", "rawdecoded"}) =>
          \A extractedBits \in {structuralBitsRead(DecodedText)} :
              /\ Len(extractedBits) <= 64
              /\ dec.tag = "str" => Len(dec.val) <= 6
              /\ (Len(extractedBits) >= 16 /\ ParseInt2(SubSeq(extractedBits, 1, 16)) > 48)
                    => dec = Null
    /\ (pc = "encoded" /\ ~ContentTooShort(text, opt)) =>
          /\ enc.tag = "str"
          /\ \A before \in {splitContentIntoUnits(text)} :
             \A patterned \in {PatternedUnits} :
             \A after \in {splitContentIntoUnits(enc.val)} :
                 (Len(before) >= 5) =>
                     /\ Len(after) = Len(before)
                     /\ \A u \in 2..Len(before) :
                            /\ (u - 1) + 16 >= PlacedLimit => after[u] = patterned[u]
                            /\ ((u - 1) + 16 >= PlacedLimit
                                  /\ (u - 1) \div 4 >= Min2(PlacedLimit, 16))
                                 => after[u] = before[u]

\* a document of more than 48 units was encoded with the bit string cut
\* inside the prefix, its later units were left as they were, and the
\* decoder stopped at 64 bits
C29_Witness ==
    /\ pc = "decoded"
    /\ opt.maxEncodableBits = CapInPrefix
    /\ Len(splitContentIntoUnits(enc.val)) > 48
    /\ Len(structuralBitsRead(enc.val)) = 64
    /\ splitContentIntoUnits(enc.val)[4 * CapInPrefix + 1]
         = splitContentIntoUnits(text)[4 * CapInPrefix + 1]

\* the paragraphs of a text that are not blank, in order
NonBlankParagraphs(t) ==
    LET paragraphs == SplitParagraphs(t)
        kept       == SelectIdx([i \in 1..Len(paragraphs) |-> Len(Trim(paragraphs[i])) > 0])
    IN  [k \in 1..Len(kept) |-> paragraphs[kept[k]]]

\* C30: style encode keeps the paragraph sequence. For every input of two
\* or more paragraphs on which hideDataStylometrically returns normally, the
\* output is the marker sentence followed by every non-blank input paragraph
\* exactly once and in order, exactly one of them carrying the restyled
\* sentences; no paragraph is dropped or duplicated.
C30_ParagraphSequenceKept ==
    (pc = "encoded" /\ enc.tag = "str") =>
        \A before \in {NonBlankParagraphs(text)} :
            /\ SubSeq(enc.val, 1, Len(markerText)) = markerText
            /\ \A after \in {NonBlankParagraphs(SubSeq(enc.val, Len(markerText) + 1, Len(enc.val)))} :
                   /\ Len(after) = Len(before)
                   /\ \E e \in 1..Len(before) :
                          \A i \in 1..Len(before) :
                              after[i] = IF i = e
                                           THEN encodeStylometricBits(before[i], FramedBits(data), rnd).val
                                           ELSE before[i]
====
